---- MODULE Spec2Model ----
(***************************************************************************)
(* whereTheBallMoves: track reconstruction (utils/trackReconstruction.ts   *)
(* with services/windborneApi.ts and utils/distance.ts), the nowcast       *)
(* (utils/nowcast.ts), the wind service (services/openMeteo.ts), the       *)
(* altitude mapping (utils/altitudeMapping.ts), retryWithBackoff           *)
(* (utils/retry.ts), the ErrorTracker (utils/errorTracking.ts), the hooks  *)
(* useDebounce, useThrottle and useBalloonData, the RefreshButton and the  *)
(* wind layer detection (utils/windLayerDetection.ts).                     *)
(*                                                                         *)
(* Numbers are fixed point.  Lengths (distanceKm, altitudeKm, cost) are in *)
(* thousandths of a kilometre.  A latitude is given as the length of its   *)
(* meridian arc from the equator in the same unit, so that one degree is   *)
(* MetresPerDegree units; a longitude is in whole degrees.  Times are in   *)
(* milliseconds.  A confidence c stands for c / ConfidenceOne.  A nullable *)
(* value is a sequence of length 0 (null) or 1.  Array indices are 0-based *)
(* as in the source; element k of an array a is a[k + 1].                  *)
(*                                                                         *)
(* Each component has its own variables and its own specification; the     *)
(* variables of the other components stay as they are constructed.         *)
(***************************************************************************)
EXTENDS Integers, Sequences, FiniteSets, TLC

VARIABLES
    pc,               \* position of the caller in reconstructBalloonTracks
    data,             \* the BalloonDataCollection passed in (its results)
    now,              \* the wall clock read by new Date()
    parsedSnapshots,  \* Map hour -> ParsedBalloonPosition[]
    unmatchedHours,   \* number[]
    allMatches,       \* Map prevHour -> TrackMatch[]
    tracks,           \* Map trackId -> TrackPoint[], in insertion order
    nextTrackId,      \* next synthetic identifier
    i,                \* loop index of reconstructTracks over hours
    result,           \* the returned TrackReconstructionResult (nullable)
    saved             \* input and result of an earlier invocation (nullable)

VARIABLES
    nowcastTrack,     \* calculateNowcast: the points of the track argument
    nowcastWind,      \* calculateNowcast: the windData argument (nullable)
    nowcastReturn     \* the returned value (nullable), in a nullable that
                      \* is null before the call

VARIABLES
    windSeries,       \* getWindDataAtTime: windData.dataPoints
    windTimestamp,    \* getWindDataAtTime: timestamp.getTime()
    windReturn        \* the returned value (nullable), in a nullable that
                      \* is null before the call

VARIABLES
    altitudeArg,      \* altitudeToPressureLevel: the altitudeKm arguments
                      \* of the calls made, in order
    pressureReturn    \* the pressures in hPa these calls returned

VARIABLES
    retryPc,          \* position in retryWithBackoff
    retryOptions,     \* maxRetries and whether retryable is supplied
    attempt,          \* loop counter
    delay,            \* the local delay
    lastError,        \* the local lastError (nullable)
    fnCalls,          \* arguments fn was invoked with, in order
    sleeps,           \* durations passed to sleep, in order
    retryOutcome      \* the settled promise, null while pending

VARIABLES
    trackerState,     \* ErrorTracker.state
    recorded          \* API errors passed to recordApiError since the last
                      \* clearAll, in order

VARIABLES
    debounceDelay,    \* useDebounce: delayMs
    debounceClock,    \* the timer clock
    debounceTimeoutRef, \* timeoutRef.current: a timer identifier (nullable)
    debounceTimers,   \* the timers set and neither fired nor cleared
    debounceMounted,  \* the component using the hook is mounted
    debounceCalls,    \* calls of the debounced function, in order
    debounceRuns      \* invocations of callback, in order

VARIABLES
    throttleDelay,    \* useThrottle: delayMs
    throttleClock,    \* Date.now() and the timer clock
    lastCallTime,     \* lastCallTime.current
    throttleTimeoutRef, \* timeoutRef.current: a timer identifier (nullable)
    throttleTimers,   \* the timers set and neither fired nor cleared
    throttleCalls,    \* calls of the throttled function, in order
    throttleRuns      \* invocations of callback, in order

VARIABLES
    windDataCache,    \* Map cacheKey -> [data, expiresAt]
    requests,         \* axios.get calls awaiting their response
    cacheClock,       \* Date.now()
    fetchLog          \* the calls of fetchWindData and clearWindDataCache
                      \* and the responses, in order

VARIABLES
    refreshClock,     \* RefreshButton: Date.now() and the timer clock
    isRefreshing,     \* the state isRefreshing
    lastRefreshTime,  \* the state lastRefreshTime
    debounceTimer,    \* the state debounceTimer: a timer identifier (nullable)
    refreshTimers,    \* the timers set and neither fired nor cleared
    clicks,           \* the times of the clicks, in order
    refreshes,        \* the times onRefresh was called, in order
    alerts            \* the times alert was called, in order

VARIABLES
    layerTrack,       \* detectWindLayerTransitions: track.points
    layerSeries,      \* detectWindLayerTransitions: windDataSeries.dataPoints
    layerReturn       \* the returned array, in a nullable that is null before the call

VARIABLES
    loading,          \* useBalloonData: the state loading
    loadError,        \* the state error (nullable)
    inFlight,         \* the calls of fetchData that have not reached finally
    fetchStarted      \* the number of calls of fetchData so far

reconstructionVars ==
    <<pc, data, now, parsedSnapshots, unmatchedHours, allMatches, tracks, nextTrackId, i, result, saved>>
nowcastVars == <<nowcastTrack, nowcastWind, nowcastReturn>>
windVars == <<windSeries, windTimestamp, windReturn>>
altitudeVars == <<altitudeArg, pressureReturn>>
retryVars ==
    <<retryPc, retryOptions, attempt, delay, lastError, fnCalls, sleeps, retryOutcome>>
trackerVars == <<trackerState, recorded>>
debounceVars ==
    <<debounceDelay, debounceClock, debounceTimeoutRef, debounceTimers, debounceMounted, debounceCalls, debounceRuns>>
throttleVars ==
    <<throttleDelay, throttleClock, lastCallTime, throttleTimeoutRef, throttleTimers, throttleCalls, throttleRuns>>
cacheVars == <<windDataCache, requests, cacheClock, fetchLog>>

refreshVars ==
    <<refreshClock, isRefreshing, lastRefreshTime, debounceTimer, refreshTimers, clicks, refreshes, alerts>>

layerVars ==
    <<layerTrack, layerSeries, layerReturn>>

loadingVars ==
    <<loading, loadError, inFlight, fetchStarted>>

vars ==
    <<reconstructionVars, nowcastVars, windVars, altitudeVars, retryVars, trackerVars, debounceVars, throttleVars, cacheVars, refreshVars, layerVars, loadingVars>>

\* The variables of every component but one are left alone.
Untouched(component) ==
    /\ IF component = "reconstruction" THEN TRUE
       ELSE UNCHANGED reconstructionVars
    /\ IF component = "nowcast" THEN TRUE ELSE UNCHANGED nowcastVars
    /\ IF component = "wind" THEN TRUE ELSE UNCHANGED windVars
    /\ IF component = "altitude" THEN TRUE ELSE UNCHANGED altitudeVars
    /\ IF component = "retry" THEN TRUE ELSE UNCHANGED retryVars
    /\ IF component = "tracker" THEN TRUE ELSE UNCHANGED trackerVars
    /\ IF component = "debounce" THEN TRUE ELSE UNCHANGED debounceVars
    /\ IF component = "throttle" THEN TRUE ELSE UNCHANGED throttleVars
    /\ IF component = "cache" THEN TRUE ELSE UNCHANGED cacheVars
    /\ IF component = "refresh" THEN TRUE ELSE UNCHANGED refreshVars
    /\ IF component = "layers" THEN TRUE ELSE UNCHANGED layerVars
    /\ IF component = "loading" THEN TRUE ELSE UNCHANGED loadingVars

\* ---------------------------------------------------------------- bounds
MaxHour == 2          \* hour labels 0 .. MaxHour
MaxPositions == 2     \* raw entries per snapshot
MaxClock == 1         \* the clock advances at most this many milliseconds

\* ------------------------------------------------------------- constants
MAX_DISTANCE_KM_PER_HOUR == 600
MAX_ALTITUDE_DELTA_KM_PER_HOUR == 5
MetresPerDegree == 111195      \* 6371 km * pi / 180, in thousandths of a km
HourMs == 60 * 60 * 1000

Null == <<>>
Some(x) == <<x>>
Abs(x) == IF x < 0 THEN -x ELSE x
Min(a, b) == IF a < b THEN a ELSE b
EmptyMap == [h \in {} |-> <<>>]

\* --------------------------------------------------------------- geometry
\* Haversine distance for two points whose longitudes differ by a multiple
\* of 180 degrees: on one meridian it is R * |dLat|, on opposite meridians
\* the great circle runs over a pole, R * (pi - |lat1 + lat2|).
calculateDistanceKm(point1, point2) ==
    IF (point2.longitude - point1.longitude) % 360 = 0
    THEN Abs(point2.latitude - point1.latitude)
    ELSE 180 * MetresPerDegree - Abs(point1.latitude + point2.latitude)

calculateBalloonDistanceKm(pos1, pos2) == calculateDistanceKm(pos1, pos2)

calculateAltitudeDeltaKm(pos1, pos2) == Abs(pos2.altitudeKm - pos1.altitudeKm)

\* ---------------------------------------------------------------- parsing
parsePosition(position) ==
    IF Len(position) # 3 THEN Null
    ELSE LET lat == position[1]
             lon == position[2]
             alt == position[3]
         IN IF \/ lat < -90 * MetresPerDegree
               \/ lat > 90 * MetresPerDegree
               \/ lon < -180
               \/ lon > 180
               \/ alt < 0
               \/ alt > 50 * 1000
            THEN Null
            ELSE Some([latitude |-> lat, longitude |-> lon, altitudeKm |-> alt])

parseBalloonPosition(position) == parsePosition(position)

RECURSIVE Flatten(_)
Flatten(ss) == IF ss = <<>> THEN <<>> ELSE Head(ss) \o Flatten(Tail(ss))

\* snapshot is nullable: null or not an array gives [].
parseSnapshot(snapshot) ==
    IF snapshot = Null THEN <<>>
    ELSE LET arr == snapshot[1]
         IN Flatten([k \in 1..Len(arr) |-> parseBalloonPosition(arr[k])])

\* ----------------------------------------------------------- findMatches
calculateMatchCost(pos1, pos2) ==
    calculateBalloonDistanceKm(pos1, pos2)
        + calculateAltitudeDeltaKm(pos1, pos2) * 10

\* The gate of findMatches: TRUE when the pair is rejected.
ExceedsThresholds_noDistance(distanceKm, altitudeDeltaKm) ==
    altitudeDeltaKm > MAX_ALTITUDE_DELTA_KM_PER_HOUR * 1000

ExceedsThresholds(distanceKm, altitudeDeltaKm) ==
    \/ distanceKm > MAX_DISTANCE_KM_PER_HOUR * 1000
    \/ altitudeDeltaKm > MAX_ALTITUDE_DELTA_KM_PER_HOUR * 1000

Candidate(fromPositions, toPositions, fi, tj) ==
    [fromIndex |-> fi,
     toIndex |-> tj,
     cost |-> calculateMatchCost(fromPositions[fi + 1], toPositions[tj + 1]),
     distanceKm |->
         calculateBalloonDistanceKm(fromPositions[fi + 1], toPositions[tj + 1]),
     altitudeDeltaKm |->
         calculateAltitudeDeltaKm(fromPositions[fi + 1], toPositions[tj + 1])]

\* The nested loops over i and j: candidates in (i, j) order, gated.
Candidates(fromPositions, toPositions) ==
    LET n == Len(fromPositions)
        m == Len(toPositions)
        all == [k \in 1..(n * m) |->
                   Candidate(fromPositions, toPositions,
                             (k - 1) \div m, (k - 1) % m)]
    IN SelectSeq(all,
           LAMBDA c : ~ExceedsThresholds(c.distanceKm, c.altitudeDeltaKm))

\* candidates.sort((a, b) => a.cost - b.cost): a stable sort (ES2019).
RECURSIVE InsertByCost(_, _)
InsertByCost(sorted, c) ==
    IF sorted = <<>> THEN <<c>>
    ELSE IF Head(sorted).cost <= c.cost
         THEN <<Head(sorted)>> \o InsertByCost(Tail(sorted), c)
         ELSE <<c>> \o sorted

RECURSIVE SortByCostFrom(_, _)
SortByCostFrom(sorted, rest) ==
    IF rest = <<>> THEN sorted
    ELSE SortByCostFrom(InsertByCost(sorted, Head(rest)), Tail(rest))

SortByCost_unsorted(candidates) == candidates

SortByCost(candidates) == SortByCostFrom(<<>>, candidates)

ConfidenceOne == MAX_DISTANCE_KM_PER_HOUR * 2 * 1000

\* 1 - Math.min(cost / (MAX_DISTANCE_KM_PER_HOUR * 2), 1)
Confidence_gateScaled(cost) ==
    (ConfidenceOne - Min(2 * cost, ConfidenceOne))

Confidence(cost) == ConfidenceOne - Min(cost, ConfidenceOne)

\* The greedy loop: take a candidate when its toIndex is not yet used.
RECURSIVE GreedyAssign(_, _, _)
GreedyAssign(candidates, usedToIndices, matches) ==
    IF candidates = <<>> THEN matches
    ELSE LET candidate == Head(candidates)
         IN IF candidate.toIndex \notin usedToIndices
            THEN GreedyAssign(Tail(candidates),
                     usedToIndices \cup {candidate.toIndex},
                     Append(matches,
                         [fromIndex |-> candidate.fromIndex,
                          toIndex |-> candidate.toIndex,
                          distanceKm |-> candidate.distanceKm,
                          altitudeDeltaKm |-> candidate.altitudeDeltaKm,
                          confidence |-> Confidence(candidate.cost)]))
            ELSE GreedyAssign(Tail(candidates), usedToIndices, matches)

findMatches(fromPositions, toPositions) ==
    GreedyAssign(SortByCost(Candidates(fromPositions, toPositions)), {}, <<>>)

\* Array.from(map.keys()).sort((a, b) => b - a): the keys, descending.
RECURSIVE DescendingKeys(_)
DescendingKeys(keys) ==
    IF keys = {} THEN <<>>
    ELSE LET top == CHOOSE h \in keys : \A g \in keys : g <= h
         IN <<top>> \o DescendingKeys(keys \ {top})

RECURSIVE AscendingKeys(_)
AscendingKeys(keys) ==
    IF keys = {} THEN <<>>
    ELSE LET least == CHOOSE h \in keys : \A g \in keys : h <= g
         IN <<least>> \o AscendingKeys(keys \ {least})

SortedHours_ascending(snapshots) == AscendingKeys(DOMAIN snapshots)

SortedHours(snapshots) == DescendingKeys(DOMAIN snapshots)

MapGet(map, key) == IF key \in DOMAIN map THEN map[key] ELSE <<>>
MapSet(map, key, value) ==
    [k \in DOMAIN map \cup {key} |-> IF k = key THEN value ELSE map[k]]

\* ------------------------------------------------------ reconstructTracks
\* new Date(now.getTime() - hour * 60 * 60 * 1000) with the position's fields
NewPoint(pos, hour, clock) ==
    [latitude |-> pos.latitude,
     longitude |-> pos.longitude,
     altitudeKm |-> pos.altitudeKm,
     timestamp |-> clock - hour * HourMs,
     hour |-> hour]

\* Math.abs(d) < 0.001 on both coordinates
Coincides(lastPoint, prevPos) ==
    /\ Abs(lastPoint.latitude - prevPos.latitude) * 1000 < MetresPerDegree
    /\ Abs(lastPoint.longitude - prevPos.longitude) * 1000 < 1

LastPoint(track) == track.points[Len(track.points)]

IsTrackOf_anyHour(track, prevHour, prevPositions, match) ==
    /\ match.fromIndex < Len(prevPositions)
    /\ Coincides(LastPoint(track), prevPositions[match.fromIndex + 1])

\* The test of the inner loop over tracks.entries()
IsTrackOf(track, prevHour, prevPositions, match) ==
    /\ LastPoint(track).hour = prevHour
    /\ match.fromIndex < Len(prevPositions)
    /\ Coincides(LastPoint(track), prevPositions[match.fromIndex + 1])

\* Index (from 1) of the first track in insertion order that passes the
\* test, 0 when matchedTrackId stays null.
FindTrack(trks, prevHour, prevPositions, match) ==
    LET hits == {t \in 1..Len(trks) :
                    IsTrackOf(trks[t], prevHour, prevPositions, match)}
    IN IF hits = {} THEN 0
       ELSE CHOOSE t \in hits : \A u \in hits : t <= u

\* The loop over matches: [trks, matchedTo] after the remaining matches.
RECURSIVE ApplyMatches(_, _, _, _, _, _, _)
ApplyMatches(trks, matchedTo, matches, prevHour, prevPositions, positions, point) ==
    IF matches = <<>> THEN [trks |-> trks, matchedTo |-> matchedTo]
    ELSE LET match == Head(matches)
             t == FindTrack(trks, prevHour, prevPositions, match)
         IN IF t # 0
            THEN ApplyMatches(
                     [trks EXCEPT ![t].points =
                         Append(@, point[positions[match.toIndex + 1]])],
                     matchedTo \cup {match.toIndex},
                     Tail(matches), prevHour, prevPositions, positions, point)
            ELSE ApplyMatches(trks, matchedTo, Tail(matches), prevHour,
                              prevPositions, positions, point)

\* The loops creating tracks for positions[j], j ascending, j not matched:
\* [trks, nextId] afterwards.
RECURSIVE NewTracks(_, _, _, _, _, _)
NewTracks(trks, nextId, positions, j, matchedTo, point) ==
    IF j >= Len(positions) THEN [trks |-> trks, nextId |-> nextId]
    ELSE IF j \in matchedTo
         THEN NewTracks(trks, nextId, positions, j + 1, matchedTo, point)
         ELSE NewTracks(
                  Append(trks, [trackId |-> nextId,
                                points |-> <<point[positions[j + 1]]>>]),
                  nextId + 1, positions, j + 1, matchedTo, point)

AssembleStep_forgetMatched(trks, nextId, snapshots, matchesOf, idx, clock) ==
    LET hours == SortedHours(snapshots)
        hour == hours[idx + 1]
        positions == MapGet(snapshots, hour)
        point == [p \in {positions[k] : k \in 1..Len(positions)} |->
                     NewPoint(p, hour, clock)]
        applied == IF idx = 0 THEN [trks |-> trks]
                   ELSE ApplyMatches(trks, {}, MapGet(matchesOf, hours[idx]),
                                     hours[idx],
                                     MapGet(snapshots, hours[idx]),
                                     positions, point)
    IN NewTracks(applied.trks, nextId, positions, 0, {}, point)

AssembleStep_restart(trks, nextId, snapshots, matchesOf, idx, clock) ==
    LET hour == SortedHours(snapshots)[idx + 1]
        positions == MapGet(snapshots, hour)
        point == [p \in {positions[k] : k \in 1..Len(positions)} |->
                     NewPoint(p, hour, clock)]
    IN NewTracks(<<>>, nextId, positions, 0, {}, point)

\* One iteration of the loop over hours, hour index idx (from 0).
AssembleStep(trks, nextId, snapshots, matchesOf, idx, clock) ==
    LET hours == SortedHours(snapshots)
        hour == hours[idx + 1]
        positions == MapGet(snapshots, hour)
        point == [p \in {positions[k] : k \in 1..Len(positions)} |->
                     NewPoint(p, hour, clock)]
    IN IF idx = 0
       THEN NewTracks(trks, nextId, positions, 0, {}, point)
       ELSE LET prevHour == hours[idx]
                matches == MapGet(matchesOf, prevHour)
                prevPositions == MapGet(snapshots, prevHour)
                applied == ApplyMatches(trks, {}, matches, prevHour,
                                        prevPositions, positions, point)
            IN NewTracks(applied.trks, nextId, positions, 0,
                         applied.matchedTo, point)

\* points.sort((a, b) => a.timestamp.getTime() - b.timestamp.getTime())
RECURSIVE InsertByTime(_, _)
InsertByTime(sorted, p) ==
    IF sorted = <<>> THEN <<p>>
    ELSE IF Head(sorted).timestamp <= p.timestamp
         THEN <<Head(sorted)>> \o InsertByTime(Tail(sorted), p)
         ELSE <<p>> \o sorted

RECURSIVE SortByTimeFrom(_, _)
SortByTimeFrom(sorted, rest) ==
    IF rest = <<>> THEN sorted
    ELSE SortByTimeFrom(InsertByTime(sorted, Head(rest)), Tail(rest))

SortByTime(points) == SortByTimeFrom(<<>>, points)

RECURSIVE TotalDistance(_, _)
TotalDistance(points, k) ==
    IF k > Len(points) THEN 0
    ELSE calculateBalloonDistanceKm(points[k - 1], points[k])
             + TotalDistance(points, k + 1)

MinAltitude(points) ==
    LET altitudes == {points[k].altitudeKm : k \in 1..Len(points)}
    IN CHOOSE a \in altitudes : \A b \in altitudes : a <= b

MaxAltitude(points) ==
    LET altitudes == {points[k].altitudeKm : k \in 1..Len(points)}
    IN CHOOSE a \in altitudes : \A b \in altitudes : b <= a

\* A quotient num / den that is not evaluated; 0 is Ratio 0 / 1.
Ratio(num, den) == [num |-> num, den |-> den]
Zero == Ratio(0, 1)

AverageSpeed_unguarded(totalDistanceKm, durationHours) ==
    Ratio(totalDistanceKm, durationHours)

\* durationHours > 0 ? totalDistanceKm / durationHours : 0
AverageSpeed(totalDistanceKm, durationHours) ==
    IF durationHours > 0 THEN Ratio(totalDistanceKm, durationHours) ELSE Zero

\* The body of the loop that converts one track (lines 223-256).
\* durationHours is in milliseconds: it stands for durationHours / HourMs.
BalloonTrack(track) ==
    LET points == SortByTime(track.points)
        startTime == points[1].timestamp
        endTime == points[Len(points)].timestamp
        durationHours == endTime - startTime
        totalDistanceKm == TotalDistance(points, 2)
        minAltitudeKm == MinAltitude(points)
        maxAltitudeKm == MaxAltitude(points)
    IN [trackId |-> track.trackId,
        points |-> points,
        startTime |-> startTime,
        endTime |-> endTime,
        durationHours |-> durationHours,
        totalDistanceKm |-> totalDistanceKm,
        averageSpeedKmh |-> AverageSpeed(totalDistanceKm, durationHours),
        minAltitudeKm |-> minAltitudeKm,
        maxAltitudeKm |-> maxAltitudeKm,
        altitudeRangeKm |-> maxAltitudeKm - minAltitudeKm]

ResultTracks(trks) ==
    LET kept == SelectSeq(trks, LAMBDA t : Len(t.points) # 0)
    IN [k \in 1..Len(kept) |-> BalloonTrack(kept[k])]

\* ------------------------------------------------ match statistics
RECURSIVE SumOver(_, _)
SumOver(seq, field) ==
    IF seq = <<>> THEN 0 ELSE Head(seq)[field] + SumOver(Tail(seq), field)

\* allMatches.values(), one after the other
RECURSIVE AllMatchValues(_, _)
AllMatchValues(matchesOf, keys) ==
    IF keys = {} THEN <<>>
    ELSE LET k == CHOOSE h \in keys : \A g \in keys : g <= h
         IN matchesOf[k] \o AllMatchValues(matchesOf, keys \ {k})

Average_unguarded(total, count) == Ratio(total, count)

\* totalMatches > 0 ? total / totalMatches : 0
Average(total, count) == IF count > 0 THEN Ratio(total, count) ELSE Zero

MatchStatistics(matchesOf) ==
    LET all == AllMatchValues(matchesOf, DOMAIN matchesOf)
        totalMatches == Len(all)
    IN [totalMatches |-> totalMatches,
        averageDistanceKm |-> Average(SumOver(all, "distanceKm"), totalMatches),
        averageConfidence |-> Average(SumOver(all, "confidence"), totalMatches)]

UnmatchedPoints(hours) ==
    [k \in 1..Len(hours) |-> [hour |-> hours[k], indices |-> <<>>]]

\* ----------------------------------------------- reconstructBalloonTracks
ParseOne_keepEmpty(acc, res) ==
    IF res.success /\ res.data # Null
    THEN [acc EXCEPT !.snapshots =
             MapSet(@, res.hour, parseSnapshot(res.data))]
    ELSE [acc EXCEPT !.unmatched = Append(@, res.hour)]

\* The body of the loop over data.results (lines 273-282).
ParseOne(acc, res) ==
    IF res.success /\ res.data # Null
    THEN LET parsed == parseSnapshot(res.data)
         IN IF Len(parsed) > 0
            THEN [acc EXCEPT !.snapshots = MapSet(@, res.hour, parsed)]
            ELSE [acc EXCEPT !.unmatched = Append(@, res.hour)]
    ELSE [acc EXCEPT !.unmatched = Append(@, res.hour)]

RECURSIVE ParseResults(_, _)
ParseResults(acc, results) ==
    IF results = <<>> THEN acc
    ELSE ParseResults(ParseOne(acc, Head(results)), Tail(results))

\* The loop over consecutive entries of the sorted hours (lines 289-300).
RECURSIVE MatchHours(_, _, _, _)
MatchHours(matchesOf, snapshots, hours, idx) ==
    IF idx >= Len(hours) THEN matchesOf
    ELSE LET prevHour == hours[idx]
             currentHour == hours[idx + 1]
             prevPositions == MapGet(snapshots, prevHour)
             currentPositions == MapGet(snapshots, currentHour)
         IN IF Len(prevPositions) > 0 /\ Len(currentPositions) > 0
            THEN MatchHours(
                     MapSet(matchesOf, prevHour,
                            findMatches(prevPositions, currentPositions)),
                     snapshots, hours, idx + 1)
            ELSE MatchHours(matchesOf, snapshots, hours, idx + 1)

\* ------------------------------------------------------------------ inputs
Hours == 0..MaxHour

\* Raw entries [lat, lon, alt] on one meridian.  Second from first: exactly
\* 600 km away and exactly 5 km lower (both gates at their limit).  Third
\* from first: 600.101 km away, 0.001 km higher (distance gate alone).
\* Third from second: 0.101 km away, 5.001 km higher (altitude gate alone).
RawPool ==
    << <<0, 0, 15000>>,
       <<600000, 0, 10000>>,
       <<600101, 0, 15001>> >>

\* A valid entry, an entry with the altitude out of range, and an entry
\* that is no triple.
MalformedPool ==
    << <<0, 0, 15000>>,
       <<0, 0, 50001>>,
       <<0, 0>> >>

\* The entries of the pool at the chosen indices, in pool order.
RECURSIVE Pick(_, _, _)
Pick(pool, chosen, k) ==
    IF k > Len(pool) THEN <<>>
    ELSE (IF k \in chosen THEN <<pool[k]>> ELSE <<>>)
             \o Pick(pool, chosen, k + 1)

\* Snapshots: up to MaxPositions entries of the pool.
Snapshots(pool) ==
    {Pick(pool, chosen, 1) : chosen \in
        {c \in SUBSET (1..Len(pool)) : Cardinality(c) <= MaxPositions}}

\* What a fetch of one hour gives: nothing listed for the hour, a failure
\* (fetchBalloonData returns data null with success false), or a snapshot.
Absent == [listed |-> FALSE, success |-> FALSE, data |-> Null]
Failed == [listed |-> TRUE, success |-> FALSE, data |-> Null]
Fetched(snapshot) == [listed |-> TRUE, success |-> TRUE, data |-> Some(snapshot)]

Outcomes(pool) == {Absent, Failed} \cup {Fetched(s) : s \in Snapshots(pool)}

\* data.results for one outcome per hour, hours ascending as
\* fetchAllBalloonData lists them.
RECURSIVE ResultsFrom(_, _)
ResultsFrom(outcome, hour) ==
    IF hour > MaxHour THEN <<>>
    ELSE (IF outcome[hour].listed
          THEN <<[hour |-> hour, success |-> outcome[hour].success,
                  data |-> outcome[hour].data]>>
          ELSE <<>>)
             \o ResultsFrom(outcome, hour + 1)

InputsOver(pool) ==
    {ResultsFrom(outcome, 0) : outcome \in [Hours -> Outcomes(pool)]}

Inputs == InputsOver(RawPool)
RepeatInputs == InputsOver(SubSeq(RawPool, 1, 2))
MalformedInputs == InputsOver(MalformedPool)

\* ----------------------------------------------------------------- actions
\* The state of the components as the modules are loaded, for every
\* component but the one a specification exercises.
AtRestExcept(component) ==
    /\ IF component = "reconstruction" THEN TRUE
       ELSE /\ pc = "idle"
            /\ data = <<>>
            /\ now = 0
            /\ parsedSnapshots = <<>>
            /\ unmatchedHours = <<>>
            /\ allMatches = <<>>
            /\ tracks = <<>>
            /\ nextTrackId = 1
            /\ i = 0
            /\ result = <<>>
            /\ saved = <<>>
    /\ IF component = "nowcast" THEN TRUE
       ELSE nowcastTrack = <<>> /\ nowcastWind = <<>> /\ nowcastReturn = <<>>
    /\ IF component = "wind" THEN TRUE
       ELSE windSeries = <<>> /\ windTimestamp = 0 /\ windReturn = <<>>
    /\ IF component = "altitude" THEN TRUE
       ELSE altitudeArg = <<>> /\ pressureReturn = <<>>
    /\ IF component = "retry" THEN TRUE
       ELSE /\ retryPc = "idle"
            /\ retryOptions = <<>>
            /\ attempt = 0
            /\ delay = 0
            /\ lastError = <<>>
            /\ fnCalls = <<>>
            /\ sleeps = <<>>
            /\ retryOutcome = <<>>
    /\ IF component = "tracker" THEN TRUE
       ELSE trackerState = <<>> /\ recorded = <<>>
    /\ IF component = "debounce" THEN TRUE
       ELSE /\ debounceDelay = 0
            /\ debounceClock = 0
            /\ debounceTimeoutRef = <<>>
            /\ debounceTimers = {}
            /\ debounceMounted = FALSE
            /\ debounceCalls = <<>>
            /\ debounceRuns = <<>>
    /\ IF component = "throttle" THEN TRUE
       ELSE /\ throttleDelay = 0
            /\ throttleClock = 0
            /\ lastCallTime = 0
            /\ throttleTimeoutRef = <<>>
            /\ throttleTimers = {}
            /\ throttleCalls = <<>>
            /\ throttleRuns = <<>>
    /\ IF component = "cache" THEN TRUE
       ELSE /\ windDataCache = <<>>
            /\ requests = {}
            /\ cacheClock = 0
            /\ fetchLog = <<>>
    /\ IF component = "refresh" THEN TRUE
       ELSE /\ refreshClock = 0
            /\ isRefreshing = FALSE
            /\ lastRefreshTime = 0
            /\ debounceTimer = <<>>
            /\ refreshTimers = {}
            /\ clicks = <<>>
            /\ refreshes = <<>>
            /\ alerts = <<>>
    /\ IF component = "layers" THEN TRUE
       ELSE /\ layerTrack = <<>>
            /\ layerSeries = <<>>
            /\ layerReturn = <<>>
    /\ IF component = "loading" THEN TRUE
       ELSE /\ loading = FALSE
            /\ loadError = <<>>
            /\ inFlight = {}
            /\ fetchStarted = 0

Init ==
    /\ AtRestExcept("reconstruction")
    /\ pc = "idle"
    /\ data = <<>>
    /\ now = 0
    /\ parsedSnapshots = EmptyMap
    /\ unmatchedHours = <<>>
    /\ allMatches = EmptyMap
    /\ tracks = <<>>
    /\ nextTrackId = 1
    /\ i = 0
    /\ result = Null
    /\ saved = Null

FirstTrackId_shared(previous) == previous

\* let nextTrackId = 1: the counter is a local of reconstructTracks.
FirstTrackId(previous) == 1

\* A caller passes a collection to reconstructBalloonTracks.
Call(results) ==
    /\ pc = "idle"
    /\ data' = results
    /\ pc' = "parse"
    /\ UNCHANGED <<now, parsedSnapshots, unmatchedHours, allMatches, tracks,
                   nextTrackId, i, result, saved>>
    /\ Untouched("reconstruction")

Invoke == pc = "idle" /\ \E results \in Inputs : Call(results)

\* The same with entries that do not parse.
InvokeMalformed ==
    pc = "idle" /\ \E results \in MalformedInputs : Call(results)

\* Lines 268-283: parse all successful snapshots.
ParseSnapshots ==
    /\ pc = "parse"
    /\ LET acc == ParseResults([snapshots |-> EmptyMap, unmatched |-> <<>>],
                               data)
       IN /\ parsedSnapshots' = acc.snapshots
          /\ unmatchedHours' = acc.unmatched
    /\ pc' = "match"
    /\ UNCHANGED <<data, now, allMatches, tracks, nextTrackId, i, result,
                   saved>>
    /\ Untouched("reconstruction")

\* Lines 285-300: find matches between consecutive hours.
FindAllMatches ==
    /\ pc = "match"
    /\ allMatches' = MatchHours(EmptyMap, parsedSnapshots,
                                SortedHours(parsedSnapshots), 1)
    /\ tracks' = <<>>
    /\ nextTrackId' = FirstTrackId(nextTrackId)
    /\ i' = 0
    /\ pc' = "assemble"
    /\ UNCHANGED <<data, now, parsedSnapshots, unmatchedHours, result, saved>>
    /\ Untouched("reconstruction")

\* Lines 125-215: one iteration of the loop over hours in reconstructTracks.
AssembleHour ==
    /\ pc = "assemble"
    /\ i < Len(SortedHours(parsedSnapshots))
    /\ LET step == AssembleStep(tracks, nextTrackId, parsedSnapshots,
                                allMatches, i, now)
       IN /\ tracks' = step.trks
          /\ nextTrackId' = step.nextId
    /\ i' = i + 1
    /\ UNCHANGED <<pc, data, now, parsedSnapshots, unmatchedHours, allMatches,
                   result, saved>>
    /\ Untouched("reconstruction")

\* Lines 217-259 and 305-337: track metadata, statistics, and the return.
\* The locals of the call are dropped; the counter of the next call is
\* again the one that let nextTrackId = 1 declares.
Return ==
    /\ pc = "assemble"
    /\ i = Len(SortedHours(parsedSnapshots))
    /\ result' = Some([tracks |-> ResultTracks(tracks),
                       unmatchedPoints |-> UnmatchedPoints(unmatchedHours),
                       matchStatistics |-> MatchStatistics(allMatches)])
    /\ pc' = "done"
    /\ parsedSnapshots' = EmptyMap
    /\ unmatchedHours' = <<>>
    /\ allMatches' = EmptyMap
    /\ tracks' = <<>>
    /\ i' = 0
    /\ nextTrackId' = FirstTrackId(nextTrackId)
    /\ UNCHANGED <<data, now, saved>>
    /\ Untouched("reconstruction")

\* The caller takes the result; the next call can start.
Consume ==
    /\ pc = "done"
    /\ pc' = "idle"
    /\ data' = <<>>
    /\ result' = Null
    /\ UNCHANGED <<now, parsedSnapshots, unmatchedHours, allMatches, tracks,
                   nextTrackId, i, saved>>
    /\ Untouched("reconstruction")

\* Time passes while the tracks are assembled.
Tick ==
    /\ pc = "assemble"
    /\ now < MaxClock
    /\ now' = now + 1
    /\ UNCHANGED <<pc, data, parsedSnapshots, unmatchedHours, allMatches,
                   tracks, nextTrackId, i, result, saved>>
    /\ Untouched("reconstruction")

Next ==
    \/ Invoke
    \/ ParseSnapshots
    \/ FindAllMatches
    \/ AssembleHour
    \/ Return
    \/ Consume
    \/ Tick

Spec == Init /\ [][Next]_vars

\* ---------------------------------------------- two calls on one collection
\* A collection with a track of two points and a track of one point.
OtherInput ==
    <<[hour |-> 0, success |-> TRUE,
       data |-> Some(<<RawPool[1], RawPool[3]>>)],
      [hour |-> 1, success |-> TRUE, data |-> Some(<<RawPool[1]>>)]>>

InvokeFirst ==
    pc = "idle" /\ saved = Null /\ \E results \in RepeatInputs : Call(results)

\* The caller keeps the collection and the result of a call.
Remember ==
    /\ pc = "done"
    /\ saved = Null
    /\ saved' = Some([data |-> data, result |-> result[1]])
    /\ pc' = "idle"
    /\ data' = <<>>
    /\ result' = Null
    /\ UNCHANGED <<now, parsedSnapshots, unmatchedHours, allMatches, tracks,
                   nextTrackId, i>>
    /\ Untouched("reconstruction")

\* Another collection is reconstructed in between.
InvokeOther == pc = "idle" /\ saved # Null /\ Call(OtherInput)

\* The kept collection is passed again.
InvokeAgain == pc = "idle" /\ saved # Null /\ Call(saved[1].data)

NextRepeat ==
    \/ InvokeFirst
    \/ Remember
    \/ InvokeOther
    \/ InvokeAgain
    \/ ParseSnapshots
    \/ FindAllMatches
    \/ AssembleHour
    \/ Return
    \/ Consume
    \/ Tick

SpecRepeat == Init /\ [][NextRepeat]_vars

NextMalformed ==
    \/ InvokeMalformed
    \/ ParseSnapshots
    \/ FindAllMatches
    \/ AssembleHour
    \/ Return
    \/ Consume
    \/ Tick

SpecMalformed == Init /\ [][NextMalformed]_vars

\* -------------------------------------------------------------- properties
\* The frames of the collection in hand that have a valid position.
Frames == ParseResults([snapshots |-> EmptyMap, unmatched |-> <<>>],
                       data).snapshots

Returned == result # Null
ReturnedTracks == result[1].tracks
HoursOf(track) == {track.points[k].hour : k \in 1..Len(track.points)}
Matched == pc = "assemble"

\* Hours h with frames for h + 1 and h - 1 and none for h.
Gaps(snapshots) ==
    {h \in Hours : /\ h \notin DOMAIN snapshots
                   /\ h + 1 \in DOMAIN snapshots
                   /\ h - 1 \in DOMAIN snapshots}

\* C1: when the frame of hour h is missing and the frames of hours h + 1 and
\* h - 1 are parseable, no match is computed from hour h + 1 across the gap
\* and no returned track has a point of hour h + 1 and a point of hour h - 1.
C1_TracksEndAtGap ==
    /\ Matched =>
           \A h \in Gaps(parsedSnapshots) : h + 1 \notin DOMAIN allMatches
    /\ Returned =>
           \A h \in Gaps(Frames) :
               \A t \in 1..Len(ReturnedTracks) :
                   ~({h + 1, h - 1} \subseteq HoursOf(ReturnedTracks[t]))

\* C2: in the matches of one frame pair no index of the older frame is the
\* fromIndex of two matches.
C2_OneMatchPerFromIndex ==
    Matched =>
        \A h \in DOMAIN allMatches :
            \A a, b \in 1..Len(allMatches[h]) :
                a # b => allMatches[h][a].fromIndex # allMatches[h][b].fromIndex

\* C3: in every returned track the hour labels strictly decrease and the
\* timestamps strictly increase along the points, so no hour occurs twice.
C3_PointsStrictlyOrdered ==
    Returned =>
        \A t \in 1..Len(ReturnedTracks) :
            LET points == ReturnedTracks[t].points
            IN /\ \A k \in 1..(Len(points) - 1) :
                      /\ points[k].hour > points[k + 1].hour
                      /\ points[k].timestamp < points[k + 1].timestamp
               /\ \A k, l \in 1..Len(points) :
                      k # l => points[k].hour # points[l].hour

C3_Witness ==
    /\ Returned
    /\ \E t \in 1..Len(ReturnedTracks) : Len(ReturnedTracks[t].points) = 3
    /\ \E t \in 1..Len(ReturnedTracks) :
           /\ Len(ReturnedTracks[t].points) = 2
           /\ ReturnedTracks[t].durationHours > HourMs

\* Every position of the older frame is more than 600 km from every
\* position of the newer frame.
FarApart(fromPositions, toPositions) ==
    \A a \in 1..Len(fromPositions), b \in 1..Len(toPositions) :
        calculateBalloonDistanceKm(fromPositions[a], toPositions[b])
            > MAX_DISTANCE_KM_PER_HOUR * 1000

\* Index pairs k, k + 1 of the sorted hours whose frames are far apart.
FarPairs(snapshots) ==
    {k \in 1..(Len(SortedHours(snapshots)) - 1) :
        FarApart(snapshots[SortedHours(snapshots)[k]],
                 snapshots[SortedHours(snapshots)[k + 1]])}

\* C4: no match has distanceKm > 600 or altitudeDeltaKm > 5; two consecutive
\* frames that are pairwise more than 600 km apart get zero matches, and
\* the result has at least as many tracks as the two frames have positions.
C4_GateRespected ==
    /\ Matched =>
           /\ \A h \in DOMAIN allMatches :
                  \A a \in 1..Len(allMatches[h]) :
                      /\ allMatches[h][a].distanceKm
                             <= MAX_DISTANCE_KM_PER_HOUR * 1000
                      /\ allMatches[h][a].altitudeDeltaKm
                             <= MAX_ALTITUDE_DELTA_KM_PER_HOUR * 1000
           /\ \A k \in FarPairs(parsedSnapshots) :
                  MapGet(allMatches, SortedHours(parsedSnapshots)[k]) = <<>>
    /\ Returned =>
           \A k \in FarPairs(Frames) :
               Len(ReturnedTracks)
                   >= Len(Frames[SortedHours(Frames)[k]])
                          + Len(Frames[SortedHours(Frames)[k + 1]])

C4_Witness ==
    /\ Returned
    /\ FarPairs(Frames) # {}
    /\ Len(SortedHours(Frames)) = 3
    /\ result[1].matchStatistics.totalMatches > 0

\* The from-indices whose pair with to-index j passes the gate.
Surviving(fromPositions, toPositions, j) ==
    {f \in 0..(Len(fromPositions) - 1) :
        /\ calculateBalloonDistanceKm(fromPositions[f + 1], toPositions[j + 1])
               <= MAX_DISTANCE_KM_PER_HOUR * 1000
        /\ calculateAltitudeDeltaKm(fromPositions[f + 1], toPositions[j + 1])
               <= MAX_ALTITUDE_DELTA_KM_PER_HOUR * 1000}

CostOf(match) == match.distanceKm + 10 * match.altitudeDeltaKm

\* The frame the matches stored under hour h lead to.
NextHour(snapshots, h) ==
    CHOOSE g \in DOMAIN snapshots :
        g < h /\ \A e \in DOMAIN snapshots : e < h => e <= g

\* C5: the matches are in ascending cost order; a to-index with a surviving
\* candidate has exactly one match, of minimal cost among its candidates; a
\* to-index without one has no match.
C5_GreedyLowestCost ==
    Matched =>
        \A h \in DOMAIN allMatches :
            LET matches == allMatches[h]
                fromPositions == parsedSnapshots[h]
                toPositions == parsedSnapshots[NextHour(parsedSnapshots, h)]
            IN /\ \A a \in 1..(Len(matches) - 1) :
                      CostOf(matches[a]) <= CostOf(matches[a + 1])
               /\ \A j \in 0..(Len(toPositions) - 1) :
                      LET mine == {a \in 1..Len(matches) :
                                      matches[a].toIndex = j}
                          cands == Surviving(fromPositions, toPositions, j)
                      IN IF cands = {} THEN mine = {}
                         ELSE /\ Cardinality(mine) = 1
                              /\ \A a \in mine :
                                     /\ matches[a].fromIndex \in cands
                                     /\ CostOf(matches[a]) =
                                            calculateMatchCost(
                                                fromPositions[matches[a].fromIndex + 1],
                                                toPositions[j + 1])
                                     /\ \A f \in cands :
                                            CostOf(matches[a]) <=
                                                calculateMatchCost(
                                                    fromPositions[f + 1],
                                                    toPositions[j + 1])

\* A to-index with two candidates, the cheaper one from the higher index,
\* and a to-index with none.
C5_Witness ==
    /\ Matched
    /\ \E h \in DOMAIN allMatches :
           LET fromPositions == parsedSnapshots[h]
               toPositions == parsedSnapshots[NextHour(parsedSnapshots, h)]
           IN /\ \E j \in 0..(Len(toPositions) - 1) :
                     /\ Surviving(fromPositions, toPositions, j) = {0, 1}
                     /\ calculateMatchCost(fromPositions[2], toPositions[j + 1])
                            < calculateMatchCost(fromPositions[1],
                                                 toPositions[j + 1])
                     /\ \E a \in 1..Len(allMatches[h]) :
                            /\ allMatches[h][a].toIndex = j
                            /\ allMatches[h][a].fromIndex = 1
              /\ \E j \in 0..(Len(toPositions) - 1) :
                     Surviving(fromPositions, toPositions, j) = {}

\* The number of entries of a result's data that are valid positions.
ValidCount(res) ==
    IF res.data = Null THEN 0
    ELSE Cardinality({k \in 1..Len(res.data[1]) :
                         parsePosition(res.data[1][k]) # Null})

Unusable(res) == ~res.success \/ res.data = Null \/ ValidCount(res) = 0

ZeroStatistics ==
    [totalMatches |-> 0, averageDistanceKm |-> Zero, averageConfidence |-> Zero]

\* C6: the unmatched entries are, in input order, exactly the results that
\* failed, have null data or have no valid position, each with no indices;
\* when every result is of that kind there are no tracks and the match
\* statistics are all zero.
C6_UnmatchedHours ==
    Returned =>
        LET unusable == SelectSeq(data, Unusable)
        IN /\ result[1].unmatchedPoints =
                  [k \in 1..Len(unusable) |->
                      [hour |-> unusable[k].hour, indices |-> <<>>]]
           /\ Len(unusable) = Len(data) =>
                  /\ ReturnedTracks = <<>>
                  /\ result[1].matchStatistics = ZeroStatistics

\* A failed result, a result whose entries are all invalid, and a result
\* with a valid and an invalid entry.
C6_Witness ==
    /\ Returned
    /\ \E k \in 1..Len(data) : ~data[k].success
    /\ \E k \in 1..Len(data) :
           /\ data[k].success
           /\ Len(data[k].data[1]) = 2
           /\ ValidCount(data[k]) = 0
    /\ \E k \in 1..Len(data) :
           /\ ValidCount(data[k]) = 1
           /\ Len(data[k].data[1]) = 2
    /\ Len(result[1].unmatchedPoints) = 2
    /\ Len(ReturnedTracks) = 1

\* C7: for an empty results list the result has no tracks, no unmatched
\* points, totalMatches 0 and both averages 0.
C7_EmptyInput ==
    (Returned /\ data = <<>>) =>
        /\ ReturnedTracks = <<>>
        /\ result[1].unmatchedPoints = <<>>
        /\ result[1].matchStatistics.totalMatches = 0
        /\ result[1].matchStatistics.averageDistanceKm = Zero
        /\ result[1].matchStatistics.averageConfidence = Zero

C7_Witness == Returned /\ data = <<>> /\ pc = "done"

\* C9: a returned track of one point has durationHours, totalDistanceKm and
\* averageSpeedKmh 0; every returned track has maxAltitudeKm >= minAltitudeKm
\* and altitudeRangeKm = maxAltitudeKm - minAltitudeKm.
C9_TrackMetadata ==
    Returned =>
        \A t \in 1..Len(ReturnedTracks) :
            LET track == ReturnedTracks[t]
            IN /\ Len(track.points) = 1 =>
                      /\ track.durationHours = 0
                      /\ track.totalDistanceKm = 0
                      /\ track.averageSpeedKmh = Zero
               /\ track.maxAltitudeKm >= track.minAltitudeKm
               /\ track.altitudeRangeKm
                      = track.maxAltitudeKm - track.minAltitudeKm

\* A track of one point next to a track whose altitude changes.
C9_Witness ==
    /\ Returned
    /\ \E t \in 1..Len(ReturnedTracks) : Len(ReturnedTracks[t].points) = 1
    /\ \E t \in 1..Len(ReturnedTracks) :
           /\ Len(ReturnedTracks[t].points) > 1
           /\ ReturnedTracks[t].altitudeRangeKm > 0

AllMatchSet ==
    UNION {{allMatches[h][a] : a \in 1..Len(allMatches[h])} :
              h \in DOMAIN allMatches}

\* C10 as stated: the confidence of a match is in [0, 1], is 1 exactly when
\* distance and altitude delta are 0, and is 0 when the distance is 600 km
\* or the altitude delta is 5 km.
C10_ZeroAtBoundary ==
    Matched =>
        \A m \in AllMatchSet :
            /\ m.confidence >= 0
            /\ m.confidence <= ConfidenceOne
            /\ m.confidence = ConfidenceOne
                   <=> (m.distanceKm = 0 /\ m.altitudeDeltaKm = 0)
            /\ (\/ m.distanceKm = MAX_DISTANCE_KM_PER_HOUR * 1000
                \/ m.altitudeDeltaKm = MAX_ALTITUDE_DELTA_KM_PER_HOUR * 1000)
                   => m.confidence = 0

\* The largest cost that passes the gate: 600 + 10 * 5.
MaxCost ==
    (MAX_DISTANCE_KM_PER_HOUR + 10 * MAX_ALTITUDE_DELTA_KM_PER_HOUR) * 1000

\* C10 as amended: the confidence of a match is in [0, 1], is 1 exactly
\* when distance and altitude delta are 0, and is 1 - cost / 1200 with
\* cost = distanceKm + 10 * altitudeDeltaKm <= 650: it is never below
\* 1 - 650 / 1200, also at the rejection boundary.
C10_LinearInCost ==
    Matched =>
        \A m \in AllMatchSet :
            /\ m.confidence >= 0
            /\ m.confidence <= ConfidenceOne
            /\ m.confidence = ConfidenceOne
                   <=> (m.distanceKm = 0 /\ m.altitudeDeltaKm = 0)
            /\ m.confidence = ConfidenceOne - CostOf(m)
            /\ m.confidence >= ConfidenceOne - MaxCost

\* A match at both limits of the gate, and a match of coinciding positions.
C10_Witness ==
    /\ Matched
    /\ \E m \in AllMatchSet :
           /\ m.distanceKm = MAX_DISTANCE_KM_PER_HOUR * 1000
           /\ m.altitudeDeltaKm = MAX_ALTITUDE_DELTA_KM_PER_HOUR * 1000
           /\ m.confidence = ConfidenceOne - MaxCost
    /\ \E m \in AllMatchSet : m.confidence = ConfidenceOne

\* A track without what is derived from the clock: identifier, the points'
\* positions and hours, distance and altitude metadata.
ClockFree(track) ==
    [trackId |-> track.trackId,
     points |-> [k \in 1..Len(track.points) |->
                    [latitude |-> track.points[k].latitude,
                     longitude |-> track.points[k].longitude,
                     altitudeKm |-> track.points[k].altitudeKm,
                     hour |-> track.points[k].hour]],
     totalDistanceKm |-> track.totalDistanceKm,
     minAltitudeKm |-> track.minAltitudeKm,
     maxAltitudeKm |-> track.maxAltitudeKm,
     altitudeRangeKm |-> track.altitudeRangeKm]

ClockFreeResult(res) ==
    [tracks |-> [t \in 1..Len(res.tracks) |-> ClockFree(res.tracks[t])],
     unmatchedPoints |-> res.unmatchedPoints,
     matchStatistics |-> res.matchStatistics]

\* The identifiers of a result are track-1, track-2, ... in order.
NumberedFromOne(res) == \A t \in 1..Len(res.tracks) : res.tracks[t].trackId = t

SecondCall == Returned /\ saved # Null /\ data = saved[1].data

InCall == pc \in {"parse", "match", "assemble"}

\* C8 as stated: the identifiers of every result are numbered from track-1,
\* and a call on a collection that was passed before returns the same
\* result (identifiers, point sequences, statistics) as the earlier call.
C8_SameResult ==
    /\ Returned => NumberedFromOne(result[1])
    /\ SecondCall => result[1] = saved[1].result

\* C8 as amended: the two results agree in the identifiers (numbered from
\* track-1), in the latitude, longitude, altitude and hour of every point,
\* in the distance and altitude metadata, the unmatched hours and the match
\* statistics; the timestamps (and the duration and speed derived from
\* them) follow the clock at the time of each call.  No step of a call
\* changes the collection.
C8_SameApartFromClock ==
    /\ [](/\ Returned => NumberedFromOne(result[1])
          /\ SecondCall =>
                 ClockFreeResult(result[1]) = ClockFreeResult(saved[1].result))
    /\ [][InCall => data' = data]_vars

\* A second call whose result differs from the first in its timestamps
\* only, with a track of two points and a new track.
C8_Witness ==
    /\ SecondCall
    /\ result[1] # saved[1].result
    /\ Len(ReturnedTracks) >= 2
    /\ \E t \in 1..Len(ReturnedTracks) : Len(ReturnedTracks[t].points) >= 2
    /\ Len(result[1].unmatchedPoints) >= 1

\* ================================================================ nowcast
MaxTrackPoints == 3   \* points of a track passed to calculateNowcast

\* Math.cos and Math.sin of a direction that is a multiple of 90 degrees,
\* to the precision of the model.
Cos(deg) == IF deg % 360 = 0 THEN 1 ELSE IF deg % 360 = 180 THEN -1 ELSE 0
Sin(deg) == IF deg % 360 = 90 THEN 1 ELSE IF deg % 360 = 270 THEN -1 ELSE 0

\* Math.atan2(dLon, dLat) in degrees, for a displacement along a meridian
\* or along a parallel.
Heading(dLon, dLat) ==
    IF dLon = 0 THEN (IF dLat >= 0 THEN 0 ELSE 180)
    ELSE IF dLon > 0 THEN 90 ELSE 270

\* base + km / 111.0 degrees of latitude, not evaluated; km is a Ratio.
ShiftedLatitude(base, km) == [base |-> base, km |-> km]

\* base + km / (111.0 * cos(latitude)) degrees of longitude, not evaluated.
ShiftedLongitude(base, km, latitude) ==
    [base |-> base, km |-> km, atLatitude |-> latitude]

Scaled(factor, ratio) == Ratio(factor * ratio.num, ratio.den)

\* A confidence of tenths / 10.
Tenths(tenths) == (ConfidenceOne \div 10) * tenths

CurrentPoint_first(points) == points[1]

\* track.points[track.points.length - 1]
CurrentPoint(points) == points[Len(points)]

NoTimeElapsed_never(timeDiffHours) == FALSE

\* timeDiffHours === 0
NoTimeElapsed(timeDiffHours) == timeDiffHours = 0

\* Lines 38-85: no wind data, extrapolate the recent movement.  The time
\* difference is in milliseconds: it stands for timeDiffHours / HourMs.
Extrapolate(points) ==
    IF Len(points) < 2 THEN Null
    ELSE LET currentPoint == CurrentPoint(points)
             prevPoint == points[Len(points) - 1]
             timeDiffHours == currentPoint.timestamp - prevPoint.timestamp
         IN IF NoTimeElapsed(timeDiffHours) THEN Null
            ELSE LET distanceKm == calculateDistanceKm(prevPoint, currentPoint)
                     velocityKmh == Ratio(distanceKm, timeDiffHours)
                     heading ==
                         Heading(currentPoint.longitude - prevPoint.longitude,
                                 currentPoint.latitude - prevPoint.latitude)
                 IN Some([currentPosition |-> currentPoint,
                          predictedPosition |->
                              [latitude |->
                                   ShiftedLatitude(currentPoint.latitude,
                                       Scaled(Cos(heading), velocityKmh)),
                               longitude |->
                                   ShiftedLongitude(currentPoint.longitude,
                                       Scaled(Sin(heading), velocityKmh),
                                       currentPoint.latitude),
                               altitudeKm |-> currentPoint.altitudeKm],
                          windVector |-> Null,
                          predictedDistanceKm |-> velocityKmh,
                          uncertaintyRadiusKm |->
                              Ratio(3 * velocityKmh.num, 10 * velocityKmh.den),
                          confidence |-> Tenths(5)])

\* Lines 109-115: the confidence of a prediction from wind data.
WindConfidence(windSpeedKmh) ==
    IF windSpeedKmh < 5 * 1000 THEN Tenths(6)
    ELSE IF windSpeedKmh > 100 * 1000 THEN Tenths(7)
    ELSE Tenths(8)

\* Lines 87-128: the prediction from wind data.
FollowWind(points, windData) ==
    LET currentPoint == CurrentPoint(points)
        windDistanceKm == Ratio(windData.windSpeedKmh, 1)
    IN Some([currentPosition |-> currentPoint,
             predictedPosition |->
                 [latitude |->
                      ShiftedLatitude(currentPoint.latitude,
                          Scaled(Cos(windData.windDirectionDeg),
                                 windDistanceKm)),
                  longitude |->
                      ShiftedLongitude(currentPoint.longitude,
                          Scaled(Sin(windData.windDirectionDeg),
                                 windDistanceKm),
                          currentPoint.latitude),
                  altitudeKm |-> currentPoint.altitudeKm],
             windVector |-> Some(windData),
             predictedDistanceKm |-> windDistanceKm,
             uncertaintyRadiusKm |-> Ratio(2 * windData.windSpeedKmh, 10),
             confidence |-> WindConfidence(windData.windSpeedKmh)])

calculateNowcast(points, windData) ==
    IF Len(points) = 0 THEN Null
    ELSE IF windData = Null THEN Extrapolate(points)
    ELSE FollowWind(points, windData[1])

\* Track points on the prime meridian, at two places, two altitudes and
\* two times an hour apart.
NowcastPoints ==
    {[latitude |-> lat, longitude |-> 0, altitudeKm |-> alt,
      timestamp |-> ts, hour |-> 0] :
        lat \in {0, 100 * 1000}, alt \in {10 * 1000, 15 * 1000},
        ts \in {0, HourMs}}

NowcastTracks ==
    UNION {[1..n -> NowcastPoints] : n \in 0..MaxTrackPoints}

\* Wind from the four cardinal directions: calm, moderate, strong.
NowcastWinds ==
    {Null} \cup
    {Some([latitude |-> 0, longitude |-> 0, pressureLevelHpa |-> 500,
           altitudeKm |-> 5500, windSpeedKmh |-> speed,
           windDirectionDeg |-> dir, timestamp |-> 0]) :
        speed \in {3 * 1000, 50 * 1000, 150 * 1000},
        dir \in {0, 90, 180, 270}}

InitNowcast ==
    /\ AtRestExcept("nowcast")
    /\ nowcastTrack \in NowcastTracks
    /\ nowcastWind \in NowcastWinds
    /\ nowcastReturn = Null

CalculateNowcast ==
    /\ nowcastReturn = Null
    /\ nowcastReturn' = Some(calculateNowcast(nowcastTrack, nowcastWind))
    /\ UNCHANGED <<nowcastTrack, nowcastWind>>
    /\ Untouched("nowcast")

NextNowcast == CalculateNowcast

SpecNowcast == InitNowcast /\ [][NextNowcast]_vars

Nowcast == nowcastReturn[1]
NowcastCalled == nowcastReturn # Null
LastTwoApart ==
    /\ Len(nowcastTrack) >= 2
    /\ nowcastTrack[Len(nowcastTrack)].timestamp
           # nowcastTrack[Len(nowcastTrack) - 1].timestamp

\* C11 as stated: with a null wind vector every track of at least two
\* points gets a prediction.
C11_PredictionForTwoPoints ==
    (NowcastCalled /\ nowcastWind = Null /\ Len(nowcastTrack) >= 2)
        => Nowcast # Null

\* C11: with a null wind vector, a track of at least two points whose last
\* two points differ in time gets a prediction extrapolated from these two
\* points at constant velocity (their distance over their time difference,
\* from the last point, at its altitude), with a null windVector and a
\* confidence of 0.5; the result is null exactly when the track has fewer
\* than two points or the last two points have the same timestamp.
C11_ExtrapolatesLastTwo ==
    (NowcastCalled /\ nowcastWind = Null) =>
        /\ (Nowcast = Null) <=> ~LastTwoApart
        /\ LastTwoApart =>
              LET n == Len(nowcastTrack)
                  last == nowcastTrack[n]
                  prev == nowcastTrack[n - 1]
                  p == Nowcast[1]
              IN /\ p.windVector = Null
                 /\ 2 * p.confidence = ConfidenceOne
                 /\ p.currentPosition = last
                 /\ p.predictedDistanceKm.num = Abs(last.latitude - prev.latitude)
                 /\ p.predictedDistanceKm.den = last.timestamp - prev.timestamp
                 /\ p.predictedPosition.latitude.base = last.latitude
                 /\ p.predictedPosition.latitude.km.num =
                        (IF last.latitude >= prev.latitude THEN 1 ELSE -1)
                            * p.predictedDistanceKm.num
                 /\ p.predictedPosition.longitude.base = last.longitude
                 /\ p.predictedPosition.longitude.km.num = 0
                 /\ p.predictedPosition.altitudeKm = last.altitudeKm

\* A track of three points that moved in its last hour but not before.
C11_Witness ==
    /\ NowcastCalled
    /\ nowcastWind = Null
    /\ Len(nowcastTrack) = 3
    /\ nowcastTrack[1].latitude = nowcastTrack[2].latitude
    /\ nowcastTrack[2].latitude # nowcastTrack[3].latitude
    /\ nowcastTrack[3].timestamp > nowcastTrack[2].timestamp
    /\ Nowcast # Null
    /\ Nowcast[1].predictedDistanceKm.num > 0

\* C12: the result is null for a track without points whatever the wind,
\* and for a track of one point without wind; with a wind vector and at
\* least one point it is a prediction from the last point of the track, at
\* that point's altitude, carrying the wind vector supplied.
C12_NullOrFromLastPoint ==
    NowcastCalled =>
        /\ Len(nowcastTrack) = 0 => Nowcast = Null
        /\ (Len(nowcastTrack) = 1 /\ nowcastWind = Null) => Nowcast = Null
        /\ (Len(nowcastTrack) >= 1 /\ nowcastWind # Null) =>
              /\ Nowcast # Null
              /\ Nowcast[1].currentPosition = nowcastTrack[Len(nowcastTrack)]
              /\ Nowcast[1].predictedPosition.altitudeKm =
                     nowcastTrack[Len(nowcastTrack)].altitudeKm
              /\ Nowcast[1].windVector = nowcastWind

\* A prediction from wind for a track whose last point differs from its
\* first in place and altitude.
C12_Witness ==
    /\ NowcastCalled
    /\ nowcastWind # Null
    /\ Len(nowcastTrack) >= 2
    /\ nowcastTrack[1].altitudeKm # nowcastTrack[Len(nowcastTrack)].altitudeKm
    /\ nowcastTrack[1].latitude # nowcastTrack[Len(nowcastTrack)].latitude
    /\ Nowcast # Null

\* =============================================================== wind data
MaxSamples == 3       \* data points of a wind series

Closer_orEqual(diff, minDiff) == diff <= minDiff

\* diff < minDiff
Closer(diff, minDiff) == diff < minDiff

\* The loop of lines 407-413 from element k on.
RECURSIVE ClosestFrom(_, _, _, _, _)
ClosestFrom(dataPoints, k, closest, minDiff, timestamp) ==
    IF k >= Len(dataPoints) THEN [closest |-> closest, minDiff |-> minDiff]
    ELSE LET point == dataPoints[k + 1]
             diff == Abs(point.timestamp - timestamp)
         IN IF Closer(diff, minDiff)
            THEN ClosestFrom(dataPoints, k + 1, point, diff, timestamp)
            ELSE ClosestFrom(dataPoints, k + 1, closest, minDiff, timestamp)

getWindDataAtTime(dataPoints, timestamp) ==
    IF Len(dataPoints) = 0 THEN Null
    ELSE LET found == ClosestFrom(dataPoints, 0, dataPoints[1],
                                  Abs(dataPoints[1].timestamp - timestamp),
                                  timestamp)
         IN IF found.minDiff > 60 * 60 * 1000 THEN Null
            ELSE Some(found.closest)

\* Samples told apart by their speed, at times that are more than an hour,
\* an hour and less than an hour before and after the times asked for.
WindSamples ==
    {[latitude |-> 0, longitude |-> 0, pressureLevelHpa |-> 500,
      altitudeKm |-> 5500, windSpeedKmh |-> speed, windDirectionDeg |-> 0,
      timestamp |-> ts] :
        speed \in {10 * 1000, 20 * 1000},
        ts \in {0, 1, HourMs, 2 * HourMs + 1, 2 * HourMs + 2}}

WindSeriesInputs == UNION {[1..n -> WindSamples] : n \in 0..MaxSamples}

WindTimestamps == {HourMs, HourMs + 1}

InitWind ==
    /\ AtRestExcept("wind")
    /\ windSeries \in WindSeriesInputs
    /\ windTimestamp \in WindTimestamps
    /\ windReturn = Null

GetWindDataAtTime ==
    /\ windReturn = Null
    /\ windReturn' = Some(getWindDataAtTime(windSeries, windTimestamp))
    /\ UNCHANGED <<windSeries, windTimestamp>>
    /\ Untouched("wind")

NextWind == GetWindDataAtTime

SpecWind == InitWind /\ [][NextWind]_vars

WindCalled == windReturn # Null
WindAway(k) == Abs(windSeries[k].timestamp - windTimestamp)

\* C13: the result is null exactly when the series is empty or every sample
\* is more than an hour from the timestamp asked for; otherwise it is the
\* first sample of the series among those nearest in time, which may be
\* exactly an hour away.
C13_NearestWithinHour ==
    WindCalled =>
        LET within == {k \in 1..Len(windSeries) : WindAway(k) <= HourMs}
        IN /\ (windReturn[1] = Null) <=> (within = {})
           /\ within # {} =>
                \E k \in within :
                    /\ windReturn[1] = Some(windSeries[k])
                    /\ \A m \in 1..Len(windSeries) :
                          /\ WindAway(m) >= WindAway(k)
                          /\ WindAway(m) = WindAway(k) => m >= k

\* Two different samples exactly an hour away, one before and one after,
\* with nothing nearer: the first of them is returned.
C13_Witness ==
    /\ WindCalled
    /\ Len(windSeries) >= 2
    /\ \E k, m \in 1..Len(windSeries) :
          /\ k < m
          /\ WindAway(k) = HourMs
          /\ WindAway(m) = HourMs
          /\ windSeries[k] # windSeries[m]
          /\ windSeries[k].timestamp # windSeries[m].timestamp
          /\ \A n \in 1..Len(windSeries) : WindAway(n) >= HourMs
          /\ windReturn[1] = Some(windSeries[k])

\* ======================================================== altitude mapping
MaxAltitudeCalls == 2 \* calls of altitudeToPressureLevel that are compared

\* Reference altitudes in thousandths of a kilometre.
PRESSURE_LEVELS ==
    <<[pressureHpa |-> 1000, altitudeKm |-> 100],
      [pressureHpa |-> 850, altitudeKm |-> 1500],
      [pressureHpa |-> 700, altitudeKm |-> 3000],
      [pressureHpa |-> 500, altitudeKm |-> 5500],
      [pressureHpa |-> 400, altitudeKm |-> 7200],
      [pressureHpa |-> 300, altitudeKm |-> 9200],
      [pressureHpa |-> 250, altitudeKm |-> 10400],
      [pressureHpa |-> 200, altitudeKm |-> 11800],
      [pressureHpa |-> 150, altitudeKm |-> 13600],
      [pressureHpa |-> 100, altitudeKm |-> 16200],
      [pressureHpa |-> 70, altitudeKm |-> 18400],
      [pressureHpa |-> 50, altitudeKm |-> 20500],
      [pressureHpa |-> 30, altitudeKm |-> 23500],
      [pressureHpa |-> 20, altitudeKm |-> 26500],
      [pressureHpa |-> 10, altitudeKm |-> 31200]>>

NearerLevel_orEqual(diff, minDiff) == diff <= minDiff

\* diff < minDiff
NearerLevel(diff, minDiff) == diff < minDiff

\* The loop of lines 50-56 from level k on.
RECURSIVE ClosestLevelFrom(_, _, _, _)
ClosestLevelFrom(k, closest, minDiff, altitude) ==
    IF k >= Len(PRESSURE_LEVELS) THEN closest
    ELSE LET level == PRESSURE_LEVELS[k + 1]
             diff == Abs(level.altitudeKm - altitude)
         IN IF NearerLevel(diff, minDiff)
            THEN ClosestLevelFrom(k + 1, level, diff, altitude)
            ELSE ClosestLevelFrom(k + 1, closest, minDiff, altitude)

altitudeToPressureLevel(altitude) ==
    IF altitude < 0 THEN 1000
    ELSE IF altitude > 35 * 1000 THEN 10
    ELSE ClosestLevelFrom(0, PRESSURE_LEVELS[1],
                          Abs(PRESSURE_LEVELS[1].altitudeKm - altitude),
                          altitude).pressureHpa

\* The reference altitudes, the altitudes half way between two of them and
\* their neighbours, and altitudes at and beyond the two cutoffs.
AltitudeInputs ==
    {-1000, -1, 0, 35 * 1000, 35 * 1000 + 1, 50 * 1000}
    \cup {PRESSURE_LEVELS[k].altitudeKm : k \in 1..Len(PRESSURE_LEVELS)}
    \cup UNION {LET mid == (PRESSURE_LEVELS[k].altitudeKm
                            + PRESSURE_LEVELS[k + 1].altitudeKm) \div 2
                IN {mid - 1, mid, mid + 1} :
                    k \in 1..(Len(PRESSURE_LEVELS) - 1)}

InitAltitude ==
    /\ AtRestExcept("altitude")
    /\ altitudeArg = <<>>
    /\ pressureReturn = <<>>

AltitudeToPressureLevel ==
    /\ Len(altitudeArg) < MaxAltitudeCalls
    /\ \E altitude \in AltitudeInputs :
          /\ altitudeArg' = Append(altitudeArg, altitude)
          /\ pressureReturn' =
                 Append(pressureReturn, altitudeToPressureLevel(altitude))
    /\ Untouched("altitude")

NextAltitude == AltitudeToPressureLevel

SpecAltitude == InitAltitude /\ [][NextAltitude]_vars

LevelAway(k, altitude) == Abs(PRESSURE_LEVELS[k].altitudeKm - altitude)

\* C14: a higher altitude never maps to a higher pressure; an altitude
\* below 0 maps to 1000 and one above 35 km to 10; every result is the
\* pressure of the first level of the table among those whose reference
\* altitude is nearest.
C14_MonotoneNearestLevel ==
    /\ \A k, m \in 1..Len(altitudeArg) :
          altitudeArg[k] <= altitudeArg[m]
              => pressureReturn[k] >= pressureReturn[m]
    /\ \A k \in 1..Len(altitudeArg) :
          /\ altitudeArg[k] < 0 => pressureReturn[k] = 1000
          /\ altitudeArg[k] > 35 * 1000 => pressureReturn[k] = 10
          /\ \E n \in 1..Len(PRESSURE_LEVELS) :
                /\ pressureReturn[k] = PRESSURE_LEVELS[n].pressureHpa
                /\ \A o \in 1..Len(PRESSURE_LEVELS) :
                      /\ LevelAway(o, altitudeArg[k])
                             >= LevelAway(n, altitudeArg[k])
                      /\ LevelAway(o, altitudeArg[k])
                             = LevelAway(n, altitudeArg[k]) => o >= n

\* An altitude half way between two levels got the first of the two, and a
\* higher altitude the second.
C14_Witness ==
    /\ Len(altitudeArg) = 2
    /\ altitudeArg[1] < altitudeArg[2]
    /\ LevelAway(2, altitudeArg[1]) = LevelAway(3, altitudeArg[1])
    /\ pressureReturn[1] = 850
    /\ pressureReturn[2] = 700

\* =================================================================== retry
MaxRetries == 3       \* maxRetries is 0 .. MaxRetries

\* DEFAULT_OPTIONS
DefaultMaxDelayMs == 30000
DefaultBackoffMultiplier == 2

\* isRetryableError: the messages of a network failure.
RetryableMessages == {"Network error"}
isRetryableError(error) == error.message \in RetryableMessages

\* What fn does with an attempt: it resolves, or it rejects with an error
\* that is a value of its own.
FnErrors(retryCount) ==
    {[message |-> m, thrownBy |-> retryCount] :
        m \in {"Network error", "Invalid input"}}
Resolved(value) == [ok |-> TRUE, value |-> value]
Rejected(error) == [ok |-> FALSE, value |-> error]

RetryCallOptions ==
    {[maxRetries |-> m, initialDelayMs |-> d, maxDelayMs |-> DefaultMaxDelayMs,
      backoffMultiplier |-> DefaultBackoffMultiplier, retryable |-> r] :
        m \in 0..MaxRetries, d \in {1000, 20000}, r \in BOOLEAN}

InLoop_oneMore(count, maxRetries) == count <= maxRetries + 1

\* attempt <= maxRetries
InLoop(count, maxRetries) == count <= maxRetries

NotRetryable_ignored(options, error) == FALSE

\* retryable && !retryable(error)
NotRetryable(options, error) == options.retryable /\ ~isRetryableError(error)

\* The head of the for loop with the counter at count: fn is invoked and
\* awaited, or the loop is left and lastError is thrown.
LoopHead(options, count, error) ==
    /\ attempt' = count
    /\ IF InLoop(count, options.maxRetries)
       THEN /\ fnCalls' = Append(fnCalls,
                                 [retryCount |-> count, settled |-> Null])
            /\ retryPc' = "await"
            /\ retryOutcome' = Null
       ELSE /\ fnCalls' = fnCalls
            /\ retryPc' = "done"
            /\ retryOutcome' = Some(Rejected(error))

InitRetry ==
    /\ AtRestExcept("retry")
    /\ retryPc = "idle"
    /\ retryOptions = Null
    /\ attempt = 0
    /\ delay = 0
    /\ lastError = Null
    /\ fnCalls = <<>>
    /\ sleeps = <<>>
    /\ retryOutcome = Null

\* Lines 35-55: the call runs up to the first await.
RetryWithBackoff ==
    /\ retryPc = "idle"
    /\ \E options \in RetryCallOptions :
          /\ retryOptions' = Some(options)
          /\ delay' = options.initialDelayMs
          /\ LoopHead(options, 0, Null)
    /\ UNCHANGED <<lastError, sleeps>>
    /\ Untouched("retry")

Settle(calls, settlement) ==
    [calls EXCEPT ![Len(calls)].settled = Some(settlement)]

\* Line 55: the promise of fn resolves and its value is returned.
FnResolves ==
    /\ retryPc = "await"
    /\ fnCalls' = Settle(fnCalls, Resolved("success"))
    /\ retryOutcome' = Some(Resolved("success"))
    /\ retryPc' = "done"
    /\ UNCHANGED <<retryOptions, attempt, delay, lastError, sleeps>>
    /\ Untouched("retry")

\* Lines 56-70: the promise of fn rejects.
FnRejects ==
    /\ retryPc = "await"
    /\ \E error \in FnErrors(attempt) :
          LET options == retryOptions[1]
              settled == Settle(fnCalls, Rejected(error))
          IN /\ lastError' = Some(error)
             /\ IF NotRetryable(options, error)
                THEN /\ fnCalls' = settled
                     /\ retryOutcome' = Some(Rejected(error))
                     /\ retryPc' = "done"
                     /\ UNCHANGED <<attempt, sleeps>>
                ELSE IF attempt < options.maxRetries
                THEN /\ fnCalls' = settled
                     /\ sleeps' =
                            Append(sleeps, Min(delay, options.maxDelayMs))
                     /\ retryPc' = "sleep"
                     /\ UNCHANGED <<attempt, retryOutcome>>
                ELSE /\ attempt' = attempt + 1
                     /\ IF InLoop(attempt + 1, options.maxRetries)
                        THEN /\ fnCalls' =
                                    Append(settled,
                                           [retryCount |-> attempt + 1,
                                            settled |-> Null])
                             /\ retryPc' = "await"
                             /\ retryOutcome' = Null
                        ELSE /\ fnCalls' = settled
                             /\ retryPc' = "done"
                             /\ retryOutcome' = Some(Rejected(error))
                     /\ UNCHANGED sleeps
    /\ UNCHANGED <<retryOptions, delay>>
    /\ Untouched("retry")

WakeUp_sameDelay ==
    /\ retryPc = "sleep"
    /\ delay' = delay
    /\ LoopHead(retryOptions[1], attempt + 1, lastError[1])
    /\ UNCHANGED <<retryOptions, lastError, sleeps>>
    /\ Untouched("retry")

\* Lines 67-68 and 53: the timer of sleep fires, the delay grows and the
\* loop goes on.
WakeUp ==
    /\ retryPc = "sleep"
    /\ delay' = delay * retryOptions[1].backoffMultiplier
    /\ LoopHead(retryOptions[1], attempt + 1, lastError[1])
    /\ UNCHANGED <<retryOptions, lastError, sleeps>>
    /\ Untouched("retry")

NextRetry ==
    \/ RetryWithBackoff
    \/ FnResolves
    \/ FnRejects
    \/ WakeUp

SpecRetry == InitRetry /\ [][NextRetry]_vars

AttemptFailed(call) == call.settled # Null /\ ~call.settled[1].ok
AllFailed == \A k \in 1..Len(fnCalls) : AttemptFailed(fnCalls[k])
LastCall == fnCalls[Len(fnCalls)]

\* C15: fn is invoked with 0, 1, 2, ... in order and at most maxRetries + 1
\* times; the call settles with the first success, whose value it returns,
\* and fn is not invoked after that; when maxRetries + 1 attempts have
\* failed the call rejects with the error of the last attempt.
C15_AttemptsInOrder ==
    /\ \A k \in 1..Len(fnCalls) : fnCalls[k].retryCount = k - 1
    /\ retryOptions # Null => Len(fnCalls) <= retryOptions[1].maxRetries + 1
    /\ \A k \in 1..Len(fnCalls) :
          (fnCalls[k].settled # Null /\ fnCalls[k].settled[1].ok) =>
              /\ k = Len(fnCalls)
              /\ retryOutcome = Some(Resolved(fnCalls[k].settled[1].value))
    /\ (retryOptions # Null /\ AllFailed
            /\ Len(fnCalls) = retryOptions[1].maxRetries + 1) =>
          retryOutcome = Some(Rejected(LastCall.settled[1].value))
    /\ retryOutcome # Null => retryPc = "done"

\* Retries were left untouched by a success, and all attempts of another
\* call failed with errors that can be retried.
C15_Witness ==
    /\ retryOptions # Null
    /\ retryOptions[1].maxRetries = 2
    /\ Len(fnCalls) = 3
    /\ AllFailed
    /\ \A k \in 1..3 : isRetryableError(fnCalls[k].settled[1].value)
    /\ retryOutcome # Null
    /\ ~retryOutcome[1].ok
    /\ retryOutcome[1].value.thrownBy = 2
    /\ Len(sleeps) = 2

\* C16: with a retryable predicate, an attempt that fails with an error the
\* predicate rejects is the last one: the call is rejected with this error,
\* and no delay was started after the failure (there are as many delays as
\* earlier attempts).
C16_RejectedAtOnce ==
    \A k \in 1..Len(fnCalls) :
        (/\ retryOptions[1].retryable
         /\ AttemptFailed(fnCalls[k])
         /\ ~isRetryableError(fnCalls[k].settled[1].value)) =>
            /\ k = Len(fnCalls)
            /\ retryPc = "done"
            /\ retryOutcome = Some(Rejected(fnCalls[k].settled[1].value))
            /\ Len(sleeps) = k - 1

\* The second attempt of three fails with an error that is not retried.
C16_Witness ==
    /\ retryOptions # Null
    /\ retryOptions[1].retryable
    /\ retryOptions[1].maxRetries = 2
    /\ Len(fnCalls) = 2
    /\ AttemptFailed(fnCalls[2])
    /\ ~isRetryableError(fnCalls[2].settled[1].value)
    /\ retryPc = "done"

\* =========================================================== error tracker
MaxApiErrors == 52    \* API errors recorded between two clearAll

ApiErrorLimit == 50

MapDelete(map, key) == [k \in (DOMAIN map) \ {key} |-> map[k]]

KeepLast_first(list, n) == SubSeq(list, 1, n)

\* list.slice(-n)
KeepLast(list, n) ==
    IF Len(list) <= n THEN list ELSE SubSeq(list, Len(list) - n + 1, Len(list))

\* The entries are kept without their timestamp; lastSuccessfulFetch is a
\* Date, here the same for every fetch, or null.
recordDataFileError(state, hour, error) ==
    [state EXCEPT !.dataFileErrors =
        MapSet(@, hour, [hour |-> hour, error |-> error])]

clearDataFileError(state, hour) ==
    [state EXCEPT !.dataFileErrors = MapDelete(@, hour)]

recordTrackError(state, trackId, issue) ==
    [state EXCEPT !.trackErrors =
        MapSet(@, trackId, [trackId |-> trackId, issue |-> issue])]

clearTrackError(state, trackId) ==
    [state EXCEPT !.trackErrors = MapDelete(@, trackId)]

recordApiError(state, type, message) ==
    LET pushed == Append(state.apiErrors, [type |-> type, message |-> message])
    IN [state EXCEPT !.apiErrors =
           IF Len(pushed) > ApiErrorLimit THEN KeepLast(pushed, ApiErrorLimit)
           ELSE pushed]

recordSuccessfulFetch(state) ==
    [state EXCEPT !.lastSuccessfulFetch = Some("date")]

\* Lines 103-118, from result k on.
RECURSIVE analyzeResults(_, _, _)
analyzeResults(state, results, k) ==
    IF k >= Len(results) THEN state
    ELSE LET res == results[k + 1]
         IN analyzeResults(IF ~res.success
                           THEN recordDataFileError(state, res.hour,
                                                    "Unknown error")
                           ELSE clearDataFileError(state, res.hour),
                           results, k + 1)

analyzeDataCollection(state, results) ==
    LET analyzed == analyzeResults(state, results, 0)
        successCount ==
            Cardinality({k \in 1..Len(results) : results[k].success})
    IN IF successCount > 0 THEN recordSuccessfulFetch(analyzed) ELSE analyzed

\* Lines 123-143, from track k on; a track is given by its identifier and
\* the number of its points.
RECURSIVE analyzeTracks(_, _, _)
analyzeTracks(state, trks, k) ==
    IF k >= Len(trks) THEN state
    ELSE LET track == trks[k + 1]
         IN analyzeTracks(IF track.points < 2
                          THEN recordTrackError(state, track.trackId,
                                                "incomplete")
                          ELSE clearTrackError(state, track.trackId),
                          trks, k + 1)

clearAll(state) ==
    [dataFileErrors |-> EmptyMap,
     trackErrors |-> EmptyMap,
     apiErrors |-> <<>>,
     lastSuccessfulFetch |-> state.lastSuccessfulFetch]

\* constructor
InitTracker ==
    /\ AtRestExcept("tracker")
    /\ trackerState = [dataFileErrors |-> EmptyMap,
                       trackErrors |-> EmptyMap,
                       apiErrors |-> <<>>,
                       lastSuccessfulFetch |-> Null]
    /\ recorded = <<>>

\* The message tells the recorded errors apart: it is the number of the
\* error since the last clearAll.
RecordApiError ==
    /\ Len(recorded) < MaxApiErrors
    /\ LET message == Len(recorded) + 1
       IN /\ trackerState' = recordApiError(trackerState, "network", message)
          /\ recorded' =
                 Append(recorded, [type |-> "network", message |-> message])
    /\ Untouched("tracker")

RecordDataFileError ==
    /\ trackerState' = recordDataFileError(trackerState, 0, "HTTP 500")
    /\ UNCHANGED recorded
    /\ Untouched("tracker")

RecordTrackError ==
    /\ trackerState' = recordTrackError(trackerState, 1, "no_wind_data")
    /\ UNCHANGED recorded
    /\ Untouched("tracker")

ClearDataFileError ==
    /\ trackerState' = clearDataFileError(trackerState, 0)
    /\ UNCHANGED recorded
    /\ Untouched("tracker")

ClearTrackError ==
    /\ trackerState' = clearTrackError(trackerState, 1)
    /\ UNCHANGED recorded
    /\ Untouched("tracker")

RecordSuccessfulFetch ==
    /\ trackerState' = recordSuccessfulFetch(trackerState)
    /\ UNCHANGED recorded
    /\ Untouched("tracker")

\* One result for hour 0, failed or not, or no result at all.
AnalyzeDataCollection ==
    /\ \E results \in {<<>>} \cup
            {<<[hour |-> 0, success |-> ok]>> : ok \in BOOLEAN} :
          trackerState' = analyzeDataCollection(trackerState, results)
    /\ UNCHANGED recorded
    /\ Untouched("tracker")

\* One track of one or two points.
AnalyzeTrackReconstruction ==
    /\ \E n \in 1..2 :
          trackerState' =
              analyzeTracks(trackerState, <<[trackId |-> 1, points |-> n]>>, 0)
    /\ UNCHANGED recorded
    /\ Untouched("tracker")

ClearAll ==
    /\ trackerState' = clearAll(trackerState)
    /\ recorded' = <<>>
    /\ Untouched("tracker")

NextTracker ==
    \/ RecordApiError
    \/ RecordDataFileError
    \/ RecordTrackError
    \/ ClearDataFileError
    \/ ClearTrackError
    \/ RecordSuccessfulFetch
    \/ AnalyzeDataCollection
    \/ AnalyzeTrackReconstruction
    \/ ClearAll

SpecTracker == InitTracker /\ [][NextTracker]_vars

\* C17: the list of API errors has at most 50 entries, and they are the
\* errors recorded last (since the list was cleared), in the order in which
\* they were recorded.
C17_LastFiftyApiErrors ==
    /\ Len(trackerState.apiErrors) <= ApiErrorLimit
    /\ Len(trackerState.apiErrors) = Min(Len(recorded), ApiErrorLimit)
    /\ \A k \in 1..Len(trackerState.apiErrors) :
          trackerState.apiErrors[k] =
              recorded[Len(recorded) - Len(trackerState.apiErrors) + k]

\* More than 50 errors were recorded: the first of the list is no longer
\* the first recorded.
C17_Witness ==
    /\ Len(recorded) = ApiErrorLimit + 2
    /\ Len(trackerState.apiErrors) = ApiErrorLimit
    /\ trackerState.apiErrors[1].message = 3
    /\ trackerState.apiErrors[ApiErrorLimit].message = ApiErrorLimit + 2

\* ================================================================== timers
MaxDelay == 2         \* delayMs is 0 .. MaxDelay
MaxTime == 4          \* the clock advances at most this many milliseconds
MaxHookCalls == 3     \* calls of a debounced or throttled function

HookArgs == {"a", "b"}

clearTimeout_noop(timers, id) == timers

\* clearTimeout(id): the timer, if still set, is removed.
clearTimeout(timers, id) == {t \in timers : t.id # id}

\* setTimeout(() => callback(...args), ms) at time clock; the identifier is
\* one that was not given out before.
setTimeout(timers, id, args, clock, ms) ==
    timers \cup {[id |-> id, due |-> clock + ms, args |-> args]}

\* A timer fires when the clock reaches its time; the clock does not pass
\* the time of a timer that is set.
Due(timers, clock) == {t \in timers : t.due <= clock}

\* ---------------------------------------------------------------- debounce
\* The hook is rendered in a mounted component.
InitDebounce ==
    /\ AtRestExcept("debounce")
    /\ debounceDelay \in 0..MaxDelay
    /\ debounceClock = 0
    /\ debounceTimeoutRef = Null
    /\ debounceTimers = {}
    /\ debounceMounted = TRUE
    /\ debounceCalls = <<>>
    /\ debounceRuns = <<>>

\* Lines 18-29: debouncedCallback(...args).
DebouncedCallback ==
    /\ Len(debounceCalls) < MaxHookCalls
    /\ \E args \in HookArgs :
          LET id == Len(debounceCalls) + 1
              cleared == IF debounceTimeoutRef # Null
                         THEN clearTimeout(debounceTimers,
                                           debounceTimeoutRef[1])
                         ELSE debounceTimers
          IN /\ debounceTimers' = setTimeout(cleared, id, args,
                                             debounceClock, debounceDelay)
             /\ debounceTimeoutRef' = Some(id)
             /\ debounceCalls' =
                    Append(debounceCalls,
                           [at |-> debounceClock, args |-> args,
                            mounted |-> debounceMounted])
    /\ UNCHANGED <<debounceDelay, debounceClock, debounceMounted, debounceRuns>>
    /\ Untouched("debounce")

\* Lines 25-28: a timer fires.  The invocation is logged with the number of
\* calls made so far and with whether the component is mounted.
DebounceTimerFires ==
    /\ \E t \in Due(debounceTimers, debounceClock) :
          /\ debounceRuns' =
                 Append(debounceRuns,
                        [at |-> debounceClock, args |-> t.args,
                         calls |-> Len(debounceCalls),
                         mounted |-> debounceMounted])
          /\ debounceTimers' = debounceTimers \ {t}
    /\ debounceTimeoutRef' = Null
    /\ UNCHANGED <<debounceDelay, debounceClock, debounceMounted, debounceCalls>>
    /\ Untouched("debounce")

\* Lines 34-40: the cleanup of the effect.
DebounceUnmount ==
    /\ debounceMounted
    /\ debounceMounted' = FALSE
    /\ debounceTimers' =
           IF debounceTimeoutRef # Null
           THEN clearTimeout(debounceTimers, debounceTimeoutRef[1])
           ELSE debounceTimers
    /\ UNCHANGED <<debounceDelay, debounceClock, debounceTimeoutRef, debounceCalls, debounceRuns>>
    /\ Untouched("debounce")

DebounceTick ==
    /\ debounceClock < MaxTime
    /\ Due(debounceTimers, debounceClock) = {}
    /\ debounceClock' = debounceClock + 1
    /\ UNCHANGED <<debounceDelay, debounceTimeoutRef, debounceTimers, debounceMounted, debounceCalls, debounceRuns>>
    /\ Untouched("debounce")

NextDebounce ==
    \/ DebouncedCallback
    \/ DebounceTimerFires
    \/ DebounceUnmount
    \/ DebounceTick

SpecDebounce == InitDebounce /\ [][NextDebounce]_vars

\* The last call was made while mounted and the component is unmounted.
UnmountedSinceLastCall ==
    debounceCalls[Len(debounceCalls)].mounted /\ ~debounceMounted

\* C18: a call of the debounced function does not invoke the callback;
\* every invocation is made for the latest call, delayMs after it and with
\* its arguments, no call is served twice, and once delayMs has passed
\* since the latest call it has been served, unless the component was
\* unmounted after the call: the callback is not invoked after the unmount
\* for a call made before it.
C18_DebouncedOnce ==
    /\ [](/\ \A k \in 1..Len(debounceRuns) :
               LET run == debounceRuns[k]
               IN /\ run.calls >= 1
                  /\ run.args = debounceCalls[run.calls].args
                  /\ run.at = debounceCalls[run.calls].at + debounceDelay
                  /\ debounceCalls[run.calls].mounted => run.mounted
                  /\ \A m \in 1..Len(debounceRuns) :
                        debounceRuns[m].calls = run.calls => m = k
          /\ (/\ Len(debounceCalls) >= 1
              /\ debounceClock >
                     debounceCalls[Len(debounceCalls)].at + debounceDelay
              /\ ~UnmountedSinceLastCall) =>
                \E k \in 1..Len(debounceRuns) :
                    debounceRuns[k].calls = Len(debounceCalls))
    /\ [][debounceCalls' # debounceCalls => debounceRuns' = debounceRuns]_vars

\* A burst of two calls with different arguments was served once, for the
\* second call; the component was unmounted while a third call was pending
\* and the delay of that call is over.
C18_Witness ==
    /\ Len(debounceCalls) = 3
    /\ debounceCalls[1].args # debounceCalls[2].args
    /\ Len(debounceRuns) = 1
    /\ debounceRuns[1].calls = 2
    /\ debounceRuns[1].args = debounceCalls[2].args
    /\ debounceRuns[1].at > debounceCalls[1].at
    /\ UnmountedSinceLastCall
    /\ debounceClock > debounceCalls[3].at + debounceDelay

\* ---------------------------------------------------------------- throttle
\* Date.now() when the hook is first rendered: the clock counts from 1970,
\* which is longer ago than any delay.
Epoch == MaxDelay

LongEnough_always(timeSinceLastCall, delayMs) == TRUE

\* timeSinceLastCall >= delayMs
LongEnough(timeSinceLastCall, delayMs) == timeSinceLastCall >= delayMs

InitThrottle ==
    /\ AtRestExcept("throttle")
    /\ throttleDelay \in 0..MaxDelay
    /\ throttleClock = Epoch
    /\ lastCallTime = 0
    /\ throttleTimeoutRef = Null
    /\ throttleTimers = {}
    /\ throttleCalls = <<>>
    /\ throttleRuns = <<>>

\* Lines 64-87: throttledCallback(...args).  The call is logged with the
\* number of invocations made before it, an invocation with the number of
\* calls made so far.
ThrottledCallback ==
    /\ Len(throttleCalls) < MaxHookCalls
    /\ \E args \in HookArgs :
          LET timeSinceLastCall == throttleClock - lastCallTime
              id == Len(throttleCalls) + 1
              cleared == IF throttleTimeoutRef # Null
                         THEN clearTimeout(throttleTimers,
                                           throttleTimeoutRef[1])
                         ELSE throttleTimers
          IN /\ throttleCalls' =
                    Append(throttleCalls,
                           [at |-> throttleClock, args |-> args,
                            runsBefore |-> Len(throttleRuns)])
             /\ IF LongEnough(timeSinceLastCall, throttleDelay)
                THEN /\ lastCallTime' = throttleClock
                     /\ throttleRuns' =
                            Append(throttleRuns,
                                   [at |-> throttleClock, args |-> args,
                                    direct |-> TRUE, calls |-> id])
                     /\ throttleTimers' = cleared
                     /\ throttleTimeoutRef' = Null
                ELSE /\ throttleTimers' =
                            setTimeout(cleared, id, args, throttleClock,
                                       throttleDelay - timeSinceLastCall)
                     /\ throttleTimeoutRef' = Some(id)
                     /\ UNCHANGED <<lastCallTime, throttleRuns>>
    /\ UNCHANGED <<throttleDelay, throttleClock>>
    /\ Untouched("throttle")

\* Lines 81-85: the timer fires.
ThrottleTimerFires ==
    /\ \E t \in Due(throttleTimers, throttleClock) :
          /\ throttleRuns' =
                 Append(throttleRuns,
                        [at |-> throttleClock, args |-> t.args,
                         direct |-> FALSE, calls |-> Len(throttleCalls)])
          /\ throttleTimers' = throttleTimers \ {t}
    /\ lastCallTime' = throttleClock
    /\ throttleTimeoutRef' = Null
    /\ UNCHANGED <<throttleDelay, throttleClock, throttleCalls>>
    /\ Untouched("throttle")

ThrottleTick ==
    /\ throttleClock < Epoch + MaxTime
    /\ Due(throttleTimers, throttleClock) = {}
    /\ throttleClock' = throttleClock + 1
    /\ UNCHANGED <<throttleDelay, lastCallTime, throttleTimeoutRef, throttleTimers, throttleCalls, throttleRuns>>
    /\ Untouched("throttle")

NextThrottle ==
    \/ ThrottledCallback
    \/ ThrottleTimerFires
    \/ ThrottleTick

SpecThrottle == InitThrottle /\ [][NextThrottle]_vars

\* Call j was served by the call itself.
ServedDirectly(j) ==
    \E k \in 1..Len(throttleRuns) :
        /\ throttleRuns[k].direct
        /\ throttleRuns[k].calls = j
        /\ throttleRuns[k].at = throttleCalls[j].at
        /\ throttleRuns[k].args = throttleCalls[j].args
        /\ k = throttleCalls[j].runsBefore + 1

\* Call j was made less than delayMs after the invocation before it.
TooEarly(j) ==
    /\ throttleCalls[j].runsBefore >= 1
    /\ throttleCalls[j].at - throttleRuns[throttleCalls[j].runsBefore].at
           < throttleDelay

\* C19: the first call invokes the callback at once; a call made less than
\* delayMs after the last invocation does not invoke it, any other call
\* does; while such a call is the latest and unserved exactly one timer is
\* set, for the moment delayMs after the last invocation and with the
\* arguments of that call, and at that moment the callback is invoked with
\* them; two consecutive invocations are at least delayMs apart.
C19_ThrottledSpacing ==
    /\ Len(throttleCalls) >= 1 => ServedDirectly(1) /\ throttleRuns[1].calls = 1
    /\ \A j \in 1..Len(throttleCalls) : ServedDirectly(j) <=> ~TooEarly(j)
    /\ Cardinality(throttleTimers) <= 1
    /\ \A t \in throttleTimers :
          /\ t.due = throttleRuns[Len(throttleRuns)].at + throttleDelay
          /\ t.due >= throttleClock
          /\ t.args = throttleCalls[Len(throttleCalls)].args
          /\ throttleTimeoutRef = Some(t.id)
    /\ (/\ Len(throttleCalls) >= 1
        /\ TooEarly(Len(throttleCalls))
        /\ throttleCalls[Len(throttleCalls)].runsBefore = Len(throttleRuns)) =>
          Cardinality(throttleTimers) = 1
    /\ \A k \in 1..Len(throttleRuns) :
          /\ k > 1 =>
                throttleRuns[k].at - throttleRuns[k - 1].at >= throttleDelay
          /\ ~throttleRuns[k].direct =>
                /\ k > 1
                /\ throttleRuns[k].at = throttleRuns[k - 1].at + throttleDelay
                /\ throttleRuns[k].args =
                       throttleCalls[throttleRuns[k].calls].args
                /\ TooEarly(throttleRuns[k].calls)

\* Three calls with different arguments: the first was served at once, the
\* second was replaced by the third while pending, and the third was served
\* by the timer delayMs after the first invocation.
C19_Witness ==
    /\ Len(throttleCalls) = 3
    /\ throttleCalls[2].args # throttleCalls[3].args
    /\ throttleCalls[2].at > throttleCalls[1].at
    /\ throttleCalls[3].runsBefore = 1
    /\ Len(throttleRuns) = 2
    /\ throttleRuns[1].direct
    /\ ~throttleRuns[2].direct
    /\ throttleRuns[2].calls = 3
    /\ throttleRuns[2].at = throttleRuns[1].at + throttleDelay

\* ========================================================= wind data cache
MaxCacheCalls == 3    \* calls of fetchWindData and clearWindDataCache

CACHE_DURATION_MS == 10 * 60 * 1000

\* Math.round(x * 100) for a coordinate x given in thousandths of a degree;
\* the key holds the coordinates in hundredths of a degree.
RoundToHundredths(thousandths) == (thousandths + 5) \div 10

getCacheKey(latitude, longitude, pressureLevelHpa) ==
    <<RoundToHundredths(latitude), RoundToHundredths(longitude),
      pressureLevelHpa>>

isCacheValid_atExpiry(expiresAt, clock) == expiresAt >= clock

\* expiresAt > new Date()
isCacheValid(expiresAt, clock) == expiresAt > clock

\* Two latitudes that round to the same hundredth and one that does not,
\* in thousandths of a degree.
CacheLatitudes == {40712, 40714, 40716}
CacheLongitude == -74006

\* The instants at which something happens: the first, and the last before
\* and the first after the expiry of a series cached at the first.
CacheTimes == {0, CACHE_DURATION_MS - 1, CACHE_DURATION_MS}

\* The calls logged so far.
CallsMade ==
    Cardinality({n \in 1..Len(fetchLog) : fetchLog[n].kind # "response"})

Logged(kind, key, ok, series) ==
    [kind |-> kind, key |-> key, at |-> cacheClock, ok |-> ok,
     data |-> series, failed |-> FALSE]

InitCache ==
    /\ AtRestExcept("cache")
    /\ windDataCache = EmptyMap
    /\ requests = {}
    /\ cacheClock = 0
    /\ fetchLog = <<>>

\* Lines 297-329: fetchWindData up to the await of axios.get, or to the
\* return of the cached series.  A call is logged with ok when it was
\* served from the cache, and with the series it returned; the request of
\* another call has the place of the call in the log as its identifier.
FetchWindData ==
    /\ CallsMade < MaxCacheCalls
    /\ \E latitude \in CacheLatitudes :
          LET cacheKey == getCacheKey(latitude, CacheLongitude, 500)
          IN IF /\ cacheKey \in DOMAIN windDataCache
                /\ isCacheValid(windDataCache[cacheKey].expiresAt, cacheClock)
             THEN /\ fetchLog' =
                         Append(fetchLog,
                                Logged("call", cacheKey, TRUE,
                                       Some(windDataCache[cacheKey].data)))
                  /\ UNCHANGED requests
             ELSE /\ requests' =
                         requests \cup {[id |-> Len(fetchLog) + 1,
                                         key |-> cacheKey,
                                         latitude |-> latitude]}
                  /\ fetchLog' =
                         Append(fetchLog, Logged("call", cacheKey, FALSE, Null))
    /\ UNCHANGED <<windDataCache, cacheClock>>
    /\ Untouched("cache")

\* Lines 329-346: the response arrives; the series parsed from it is
\* cached and returned.  The series is told apart by its request.
ResponseArrives ==
    /\ \E request \in requests :
          LET windData == [latitude |-> request.latitude,
                           response |-> request.id]
          IN /\ windDataCache' =
                    MapSet(windDataCache, request.key,
                           [data |-> windData,
                            expiresAt |-> cacheClock + CACHE_DURATION_MS])
             /\ fetchLog' =
                    Append(fetchLog,
                           Logged("response", request.key, TRUE,
                                  Some(windData)))
             /\ requests' = requests \ {request}
    /\ UNCHANGED cacheClock
    /\ Untouched("cache")

\* Lines 347-368: axios.get rejects; nothing is cached.  The failure is
\* noted with the call.
RequestFails ==
    /\ \E request \in requests :
          /\ fetchLog' = [fetchLog EXCEPT ![request.id].failed = TRUE]
          /\ requests' = requests \ {request}
    /\ UNCHANGED <<windDataCache, cacheClock>>
    /\ Untouched("cache")

ClearWindDataCache ==
    /\ CallsMade < MaxCacheCalls
    /\ windDataCache' = EmptyMap
    /\ fetchLog' = Append(fetchLog, Logged("clear", <<>>, TRUE, Null))
    /\ UNCHANGED <<requests, cacheClock>>
    /\ Untouched("cache")

CacheTick ==
    /\ \E later \in CacheTimes :
          /\ later > cacheClock
          /\ cacheClock' = later
    /\ UNCHANGED <<windDataCache, requests, fetchLog>>
    /\ Untouched("cache")

NextCache ==
    \/ FetchWindData
    \/ ResponseArrives
    \/ RequestFails
    \/ ClearWindDataCache
    \/ CacheTick

SpecCache == InitCache /\ [][NextCache]_vars

\* The events before event n that decide what the cache holds for a key:
\* the successful responses for the key and the clearings.
Deciding(n, key) ==
    {m \in 1..(n - 1) :
        \/ fetchLog[m].kind = "clear"
        \/ fetchLog[m].kind = "response" /\ fetchLog[m].ok
               /\ fetchLog[m].key = key}

Latest(events) == CHOOSE m \in events : \A o \in events : o <= m

\* Call n finds a series fetched successfully less than 10 minutes before,
\* with no clearing since.
FreshFor(n) ==
    LET events == Deciding(n, fetchLog[n].key)
    IN /\ events # {}
       /\ fetchLog[Latest(events)].kind = "response"
       /\ fetchLog[n].at - fetchLog[Latest(events)].at < CACHE_DURATION_MS

\* C20: a call for a key (the coordinates rounded to hundredths of a degree
\* and the pressure level) whose latest successful fetch ended less than 10
\* minutes before, with no clearing of the cache since, returns the series
\* of that fetch without a request; every other call, after a clearing,
\* after the expiry, or when the fetches so far failed, issues a request.
C20_CacheWithinTenMinutes ==
    \A n \in 1..Len(fetchLog) :
        fetchLog[n].kind = "call" =>
            /\ fetchLog[n].ok <=> FreshFor(n)
            /\ fetchLog[n].ok =>
                  fetchLog[n].data =
                      fetchLog[Latest(Deciding(n, fetchLog[n].key))].data
            /\ ~fetchLog[n].ok =>
                  \/ \E request \in requests : request.id = n
                  \/ fetchLog[n].failed
                  \/ \E m \in (n + 1)..Len(fetchLog) :
                        /\ fetchLog[m].kind = "response"
                        /\ fetchLog[m].key = fetchLog[n].key
                        /\ fetchLog[m].data[1].response = n

\* A series was cached, served a millisecond before its expiry to a call
\* for another latitude of the same key, and fetched again at its expiry.
C20_Witness ==
    /\ Len(fetchLog) = 4
    /\ fetchLog[1].kind = "call" /\ ~fetchLog[1].ok
    /\ fetchLog[2].kind = "response" /\ fetchLog[2].ok
    /\ fetchLog[3].kind = "call" /\ fetchLog[3].ok
    /\ fetchLog[3].at - fetchLog[2].at = CACHE_DURATION_MS - 1
    /\ fetchLog[3].data[1].latitude = 40712
    /\ fetchLog[4].kind = "call" /\ ~fetchLog[4].ok
    /\ fetchLog[4].at - fetchLog[2].at = CACHE_DURATION_MS
    /\ fetchLog[4].key = fetchLog[2].key
    /\ \E request \in requests : request.id = 4 /\ request.latitude = 40714

\* ======================================================================
\* components/Controls/RefreshButton.tsx
\* ======================================================================
MaxClicks == 4
MaxElapsedMs == 31000

THROTTLE_MS == 30000
DEBOUNCE_MS == 500

\* Date.now() when the button is mounted: milliseconds since 1970, far more
\* than THROTTLE_MS after the initial lastRefreshTime of 0.
RefreshEpoch == THROTTLE_MS

\* The clock is advanced by these amounts: the short ones while a debounce
\* timer is set, the long one while none is.
RefreshSteps ==
    IF refreshTimers = {} THEN {THROTTLE_MS - 1000}
    ELSE {DEBOUNCE_MS - 1, DEBOUNCE_MS}

TooSoon_never(timeSinceLastRefresh) == FALSE

\* Line 31: timeSinceLastRefresh < THROTTLE_MS.
TooSoon(timeSinceLastRefresh) == timeSinceLastRefresh < THROTTLE_MS

\* Lines 12-14: the first render.
InitRefresh ==
    /\ AtRestExcept("refresh")
    /\ refreshClock = RefreshEpoch
    /\ isRefreshing = FALSE
    /\ lastRefreshTime = 0
    /\ debounceTimer = Null
    /\ refreshTimers = {}
    /\ clicks = <<>>
    /\ refreshes = <<>>
    /\ alerts = <<>>

\* Lines 19-50: handleClick, of the latest render; the button is disabled
\* while isRefreshing (line 55).  The timer's callback keeps the
\* lastRefreshTime of the render in which handleClick was made (args).
HandleClick ==
    /\ ~isRefreshing
    /\ Len(clicks) < MaxClicks
    /\ LET id == Len(clicks) + 1
           cleared == IF debounceTimer # Null
                      THEN clearTimeout(refreshTimers, debounceTimer[1])
                      ELSE refreshTimers
       IN /\ refreshTimers' = setTimeout(cleared, id, lastRefreshTime,
                                         refreshClock, DEBOUNCE_MS)
          /\ debounceTimer' = Some(id)
    /\ clicks' = Append(clicks, refreshClock)
    /\ UNCHANGED <<refreshClock, isRefreshing, lastRefreshTime, refreshes, alerts>>
    /\ Untouched("refresh")

\* Lines 26-41: the debounce timer fires.
RefreshTimerFires ==
    /\ \E t \in Due(refreshTimers, refreshClock) :
          /\ refreshTimers' = refreshTimers \ {t}
          /\ IF TooSoon(refreshClock - t.args)
             THEN /\ alerts' = Append(alerts, [at |-> refreshClock,
                                               click |-> t.id])
                  /\ UNCHANGED <<isRefreshing, lastRefreshTime, refreshes>>
             ELSE /\ isRefreshing' = TRUE
                  /\ lastRefreshTime' = refreshClock
                  /\ refreshes' = Append(refreshes, [at |-> refreshClock,
                                                     click |-> t.id])
                  /\ UNCHANGED alerts
    /\ UNCHANGED <<refreshClock, debounceTimer, clicks>>
    /\ Untouched("refresh")

\* Lines 41-46: onRefresh() settles, fulfilled or rejected.
OnRefreshSettles ==
    /\ isRefreshing
    /\ isRefreshing' = FALSE
    /\ UNCHANGED <<refreshClock, lastRefreshTime, debounceTimer, refreshTimers, clicks, refreshes, alerts>>
    /\ Untouched("refresh")

RefreshTick ==
    /\ \E step \in RefreshSteps :
          /\ refreshClock + step <= RefreshEpoch + MaxElapsedMs
          /\ \A t \in refreshTimers : t.due >= refreshClock + step
          /\ refreshClock' = refreshClock + step
    /\ UNCHANGED <<isRefreshing, lastRefreshTime, debounceTimer, refreshTimers, clicks, refreshes, alerts>>
    /\ Untouched("refresh")

NextRefresh ==
    \/ HandleClick
    \/ RefreshTimerFires
    \/ OnRefreshSettles
    \/ RefreshTick

SpecRefresh == InitRefresh /\ [][NextRefresh]_vars

\* Click k was followed by another click less than DEBOUNCE_MS later.
FollowedSoon(k) ==
    /\ k < Len(clicks)
    /\ clicks[k + 1] - clicks[k] < DEBOUNCE_MS

\* C21: two calls of onRefresh are at least 30 s apart, so that a click
\* whose timer fires less than 30 s after the previous accepted refresh
\* calls nothing; and of clicks that each come within 500 ms of the previous
\* one only the last can call onRefresh.
C21_OncePerWindow ==
    /\ \A a, b \in 1..Len(refreshes) :
          a < b => refreshes[b].at - refreshes[a].at >= THROTTLE_MS
    /\ \A r \in 1..Len(refreshes) : ~FollowedSoon(refreshes[r].click)
    /\ \A a, b \in 1..Len(refreshes) :
          a # b => refreshes[a].click # refreshes[b].click

\* Two clicks 499 ms apart gave one refresh; a click whose timer fired
\* 29.5 s after it was refused; the next, 30 s after it, was accepted.
C21_Witness ==
    /\ Len(clicks) = 4
    /\ FollowedSoon(1)
    /\ clicks[2] > clicks[1]
    /\ Len(refreshes) = 2
    /\ refreshes[1].click = 2
    /\ refreshes[2].click = 4
    /\ refreshes[2].at - refreshes[1].at = THROTTLE_MS
    /\ Len(alerts) = 1
    /\ alerts[1].click = 3
    /\ alerts[1].at - refreshes[1].at < THROTTLE_MS

\* ======================================================================
\* Track assembly: matches and tracks
\* ======================================================================
\* Point p of a track is position pos of the frame of hour hour.
IsPointOf(p, pos, hour) ==
    /\ p.hour = hour
    /\ p.latitude = pos.latitude
    /\ p.longitude = pos.longitude
    /\ p.altitudeKm = pos.altitudeKm

\* Some track has the position match.fromIndex of the frame of prevHour
\* followed by the position match.toIndex of the frame of hour.
Extended(trks, snapshots, prevHour, hour, match) ==
    \E t \in 1..Len(trks) :
        \E k \in 1..(Len(trks[t].points) - 1) :
            /\ IsPointOf(trks[t].points[k],
                         MapGet(snapshots, prevHour)[match.fromIndex + 1],
                         prevHour)
            /\ IsPointOf(trks[t].points[k + 1],
                         MapGet(snapshots, hour)[match.toIndex + 1], hour)

\* C22: once the frame of an hour is assembled, every match from the frame
\* before it has extended the track of its fromIndex position by its toIndex
\* position; none is discarded.
C22_EveryMatchExtendsItsTrack ==
    Matched =>
        LET hours == SortedHours(parsedSnapshots)
        IN \A idx \in 1..(i - 1) :
               LET matches == MapGet(allMatches, hours[idx])
               IN \A m \in 1..Len(matches) :
                      Extended(tracks, parsedSnapshots, hours[idx],
                               hours[idx + 1], matches[m])

\* Sequence s is the beginning of sequence t.
IsPrefix(s, t) ==
    /\ Len(s) <= Len(t)
    /\ \A k \in 1..Len(s) : s[k] = t[k]

\* trks became after: the tracks there were are kept in their places, each
\* with its points and at most one more at the end, and the tracks added
\* have one point each.
OnlyGrown(trks, after) ==
    /\ Len(after) >= Len(trks)
    /\ \A t \in 1..Len(trks) :
          /\ after[t].trackId = trks[t].trackId
          /\ IsPrefix(trks[t].points, after[t].points)
          /\ Len(after[t].points) <= Len(trks[t].points) + 1
    /\ \A t \in (Len(trks) + 1)..Len(after) : Len(after[t].points) = 1
    /\ \A t, u \in 1..Len(after) :
          t # u => after[t].trackId # after[u].trackId

\* C23: every step of the loop over the frames keeps the tracks and their
\* points, appends at most one point to a track and adds tracks of one point;
\* the returned tracks are the assembled ones with their points in the order
\* they were appended in.
C23_TracksOnlyGrow ==
    [][/\ (pc = "assemble" /\ i' = i + 1) => OnlyGrown(tracks, tracks')
       /\ (pc = "assemble" /\ pc' = "done") =>
              /\ Len(result'[1].tracks) = Len(tracks)
              /\ \A t \in 1..Len(tracks) :
                    /\ result'[1].tracks[t].trackId = tracks[t].trackId
                    /\ result'[1].tracks[t].points = tracks[t].points]_vars

\* A frame after the first is assembled: a track was extended, a track of
\* the frame before was not, and a track was added for the frame.
C23_Witness ==
    /\ pc = "assemble"
    /\ i >= 2
    /\ \E t \in 1..Len(tracks) : Len(tracks[t].points) = 2
    /\ \E t \in 1..Len(tracks) :
          /\ Len(tracks[t].points) = 1
          /\ tracks[t].points[1].hour = SortedHours(parsedSnapshots)[i - 1]
    /\ \E t \in 1..Len(tracks) :
          /\ Len(tracks[t].points) = 1
          /\ tracks[t].points[1].hour = SortedHours(parsedSnapshots)[i]

\* ----------------------------------------- the order of data.results
\* The collections with the entries of results in another order.
Reorderings(results) ==
    IF results = <<>> THEN {<<>>}
    ELSE {[k \in 1..Len(results) |-> results[p[k]]] :
             p \in Permutations(1..Len(results))}

\* The kept collection is passed again with its entries in any order.
InvokeReordered ==
    /\ pc = "idle"
    /\ saved # Null
    /\ \E results \in Reorderings(saved[1].data) : Call(results)

NextReorder ==
    \/ InvokeFirst
    \/ Remember
    \/ InvokeReordered
    \/ ParseSnapshots
    \/ FindAllMatches
    \/ AssembleHour
    \/ Return
    \/ Consume

\* The clock reads the same throughout, so that two results differ only by
\* what the order of the entries does.
SpecReorder == Init /\ [][NextReorder]_vars

\* The hours of the points placed in tracks so far.
HoursPlaced == UNION {HoursOf(tracks[t]) : t \in 1..Len(tracks)}

\* The last call was made on the kept collection in another order.
ReorderedCall ==
    /\ Returned
    /\ saved # Null
    /\ data \in Reorderings(saved[1].data)

\* C24: with one result per hour at most, a call on the entries in another
\* order returns the same tracks (identifiers, points and metadata) and the
\* same match statistics; the frames assembled after i iterations are those
\* of the i greatest hours.
C24_OrderOfResultsIrrelevant ==
    /\ ReorderedCall =>
           /\ result[1].tracks = saved[1].result.tracks
           /\ result[1].matchStatistics = saved[1].result.matchStatistics
    /\ Matched =>
           \A h \in DOMAIN parsedSnapshots :
               h \in HoursPlaced <=>
                   Cardinality({g \in DOMAIN parsedSnapshots : g > h}) < i

\* Three frames passed in another order than the first time, one of them
\* unparseable; the result has a track of two points and a match.
C24_Witness ==
    /\ ReorderedCall
    /\ data # saved[1].data
    /\ Len(data) = 3
    /\ now = 0
    /\ \E t \in 1..Len(ReturnedTracks) : Len(ReturnedTracks[t].points) >= 2
    /\ Len(ReturnedTracks) >= 2
    /\ result[1].matchStatistics.totalMatches >= 1
    /\ Len(result[1].unmatchedPoints) = 1

\* ======================================================================
\* utils/windLayerDetection.ts
\* ======================================================================
MaxLayerPoints == 3   \* points of a track passed to detectWindLayerTransitions

DIRECTION_THRESHOLD == 30
SPEED_THRESHOLD == 10

NormalizedChange_raw(directionChange) == directionChange

\* Lines 50-53: Math.min(directionChange, 360 - directionChange).
NormalizedChange(directionChange) == Min(directionChange, 360 - directionChange)

\* Lines 62-72.  Speeds are in thousandths of a km/h.
TransitionType(normalizedDirectionChange, speedChange) ==
    IF /\ normalizedDirectionChange > DIRECTION_THRESHOLD
       /\ speedChange > SPEED_THRESHOLD * 1000
    THEN "both"
    ELSE IF normalizedDirectionChange > DIRECTION_THRESHOLD THEN "direction"
    ELSE IF speedChange > SPEED_THRESHOLD * 1000 THEN "speed"
    ELSE "none"

\* The body of the loop (lines 42-85) for point i (from 0): the transitions
\* and previousWind afterwards.
DetectStep(acc, points, dataPoints, idx) ==
    LET point == points[idx + 1]
        currentWind == getWindDataAtTime(dataPoints, point.timestamp)
        previousWind == acc.previousWind
    IN IF previousWind # Null /\ currentWind # Null
       THEN LET directionChange ==
                    Abs(currentWind[1].windDirectionDeg
                            - previousWind[1].windDirectionDeg)
                normalizedDirectionChange == NormalizedChange(directionChange)
                speedChange == Abs(currentWind[1].windSpeedKmh
                                       - previousWind[1].windSpeedKmh)
            IN IF \/ normalizedDirectionChange > DIRECTION_THRESHOLD
                  \/ speedChange > SPEED_THRESHOLD * 1000
               THEN [transitions |->
                         Append(acc.transitions,
                                [point |-> point,
                                 previousWind |-> previousWind,
                                 currentWind |-> currentWind,
                                 transitionType |->
                                     TransitionType(normalizedDirectionChange,
                                                    speedChange),
                                 directionChange |-> normalizedDirectionChange,
                                 speedChange |-> speedChange]),
                     previousWind |-> currentWind]
               ELSE [acc EXCEPT !.previousWind = currentWind]
       ELSE [acc EXCEPT !.previousWind = currentWind]

RECURSIVE DetectFrom(_, _, _, _)
DetectFrom(acc, points, dataPoints, idx) ==
    IF idx >= Len(points) THEN acc
    ELSE DetectFrom(DetectStep(acc, points, dataPoints, idx), points,
                    dataPoints, idx + 1)

detectWindLayerTransitions(points, dataPoints) ==
    IF Len(points) < 2 THEN <<>>
    ELSE DetectFrom([transitions |-> <<>>, previousWind |-> Null], points,
                    dataPoints, 0).transitions

\* Track points three hours apart, told apart by their hour.
LayerPoint(k) ==
    [latitude |-> 0, longitude |-> 0, altitudeKm |-> 5500,
     timestamp |-> 3 * k * HourMs, hour |-> 3 * (MaxLayerPoints - k)]

LayerTracks == {[k \in 1..n |-> LayerPoint(k)] : n \in 0..MaxLayerPoints}

\* For each track point no sample within the hour, or one sample at the
\* point's time; directions 1, 10 and 40 degrees either side of the
\* threshold across north, speeds at and 0.001 km/h over the threshold.
LayerWinds ==
    {Null} \cup
    {Some([speed |-> speed, dir |-> dir]) :
         speed \in {10 * 1000, 20 * 1000, 20 * 1000 + 1},
         dir \in {0, 30, 31, 350}}

LayerSample(k, wind) ==
    [latitude |-> 0, longitude |-> 0, pressureLevelHpa |-> 500,
     altitudeKm |-> 5500, windSpeedKmh |-> wind.speed,
     windDirectionDeg |-> wind.dir, timestamp |-> 3 * k * HourMs]

RECURSIVE LayerSeries(_, _)
LayerSeries(winds, k) ==
    IF k > Len(winds) THEN <<>>
    ELSE (IF winds[k] = Null THEN <<>> ELSE <<LayerSample(k, winds[k][1])>>)
             \o LayerSeries(winds, k + 1)

InitLayers ==
    /\ AtRestExcept("layers")
    /\ layerTrack \in LayerTracks
    /\ \E winds \in [1..Len(layerTrack) -> LayerWinds] :
          layerSeries = LayerSeries(winds, 1)
    /\ layerReturn = Null

DetectWindLayerTransitions ==
    /\ layerReturn = Null
    /\ layerReturn' = Some(detectWindLayerTransitions(layerTrack, layerSeries))
    /\ UNCHANGED <<layerTrack, layerSeries>>
    /\ Untouched("layers")

NextLayers == DetectWindLayerTransitions

SpecLayers == InitLayers /\ [][NextLayers]_vars

\* The wind sample resolved for point k (from 1) of the track.
WindAt(k) == getWindDataAtTime(layerSeries, layerTrack[k].timestamp)

\* The change between two directions on the circle, 0 to 180 degrees.
CircularChange(a, b) ==
    LET d == (a - b) % 360 IN IF d > 180 THEN 360 - d ELSE d

DirectionExceeded(k) ==
    CircularChange(WindAt(k)[1].windDirectionDeg,
                   WindAt(k - 1)[1].windDirectionDeg) > 30

SpeedExceeded(k) ==
    Abs(WindAt(k)[1].windSpeedKmh - WindAt(k - 1)[1].windSpeedKmh) > 10 * 1000

\* Point k (from 1) is where a transition is to be emitted.
TransitionAt(k) ==
    /\ k >= 2
    /\ WindAt(k - 1) # Null
    /\ WindAt(k) # Null
    /\ DirectionExceeded(k) \/ SpeedExceeded(k)

ExpectedType(k) ==
    IF DirectionExceeded(k) /\ SpeedExceeded(k) THEN "both"
    ELSE IF DirectionExceeded(k) THEN "direction" ELSE "speed"

\* C25: the transitions returned are, in order, those of the points k whose
\* own and whose predecessor's wind sample resolve and differ by more than
\* 30 degrees on the circle or by more than 10 km/h; the type is both,
\* direction or speed accordingly and never none; a track of fewer than two
\* points gives none.
C25_TransitionsWhereWindChanges ==
    layerReturn # Null =>
        LET at == SelectSeq([k \in 1..Len(layerTrack) |-> k],
                            LAMBDA k : TransitionAt(k))
            transitions == layerReturn[1]
        IN /\ Len(transitions) = Len(at)
           /\ \A j \in 1..Len(at) :
                 /\ transitions[j].point = layerTrack[at[j]]
                 /\ transitions[j].transitionType = ExpectedType(at[j])
                 /\ transitions[j].transitionType # "none"
           /\ Len(layerTrack) < 2 => transitions = <<>>

\* Three points: from 350 to 31 degrees at equal speed is a transition of
\* direction (41 degrees across north); the third point has no sample.
C25_Witness ==
    /\ layerReturn # Null
    /\ Len(layerTrack) = 3
    /\ WindAt(1) # Null /\ WindAt(2) # Null /\ WindAt(3) = Null
    /\ WindAt(1)[1].windDirectionDeg = 350
    /\ WindAt(2)[1].windDirectionDeg = 31
    /\ Len(layerReturn[1]) = 1
    /\ layerReturn[1][1].transitionType = "direction"
    /\ layerReturn[1][1].directionChange = 41

\* ----------------------------------------------------- retry: the waits
RECURSIVE Power(_, _)
Power(base, exponent) ==
    IF exponent = 0 THEN 1 ELSE base * Power(base, exponent - 1)

\* The error of a failed attempt lets the loop go on.
MayRetry(call) ==
    /\ AttemptFailed(call)
    /\ ~(retryOptions[1].retryable /\ ~isRetryableError(call.settled[1].value))

\* C26: the k-th wait is min(initialDelayMs * backoffMultiplier^(k-1),
\* maxDelayMs); it follows attempt k, which failed with an error that may be
\* retried, and is followed by attempt k + 1, so that there are at most
\* maxRetries waits, none after a success and none after the last attempt.
C26_WaitsBetweenAttempts ==
    retryOptions # Null =>
        LET options == retryOptions[1]
        IN /\ \A k \in 1..Len(sleeps) :
                 /\ sleeps[k] =
                        Min(options.initialDelayMs
                                * Power(options.backoffMultiplier, k - 1),
                            options.maxDelayMs)
                 /\ k <= Len(fnCalls)
                 /\ MayRetry(fnCalls[k])
           /\ Len(sleeps) <= options.maxRetries
           /\ Len(sleeps) =
                  IF retryPc = "sleep" THEN Len(fnCalls) ELSE Len(fnCalls) - 1
           /\ retryPc = "sleep" => Len(fnCalls) <= options.maxRetries

\* Four attempts failed from 20 s on: the waits are 20 s and twice the
\* maximum of 30 s, and the call is rejected with no wait after the last.
C26_Witness ==
    /\ retryPc = "done"
    /\ retryOptions # Null
    /\ retryOptions[1].maxRetries = 3
    /\ Len(fnCalls) = 4
    /\ AllFailed
    /\ sleeps = <<20000, DefaultMaxDelayMs, DefaultMaxDelayMs>>

\* ------------------------------------------- positions and track points
\* The points of all tracks, one track after the other.
RECURSIVE AllPoints(_, _)
AllPoints(trks, t) ==
    IF t > Len(trks) THEN <<>>
    ELSE trks[t].points \o AllPoints(trks, t + 1)

\* How many of the points are at position pos of the frame of hour hour.
PointsAt(points, pos, hour) ==
    Cardinality({n \in 1..Len(points) : IsPointOf(points[n], pos, hour)})

\* How many entries of a frame are at position pos.
EntriesAt(positions, pos) ==
    Cardinality({k \in 1..Len(positions) : positions[k] = pos})

TotalPoints(trks, t) == Len(AllPoints(trks, t))

RECURSIVE TotalPositions(_, _)
TotalPositions(snapshots, hours) ==
    IF hours = {} THEN 0
    ELSE LET h == CHOOSE g \in hours : TRUE
         IN Len(snapshots[h]) + TotalPositions(snapshots, hours \ {h})

\* C27: in a returned result the points of hour h are the valid positions of
\* the frame of hour h, each as often as it occurs in the frame, and the
\* number of points is the number of valid positions of all frames.
C27_EveryPositionInOneTrack ==
    Returned =>
        LET frames == Frames
            points == AllPoints(ReturnedTracks, 1)
        IN /\ \A h \in DOMAIN frames :
                 \A k \in 1..Len(frames[h]) :
                     PointsAt(points, frames[h][k], h) =
                         EntriesAt(frames[h], frames[h][k])
           /\ \A n \in 1..Len(points) : points[n].hour \in DOMAIN frames
           /\ Len(points) = TotalPositions(frames, DOMAIN frames)

\* Three frames of two positions: a track of three points, and positions
\* matched and unmatched.
C27_Witness ==
    /\ Returned
    /\ Cardinality(DOMAIN Frames) = 3
    /\ \A h \in DOMAIN Frames : Len(Frames[h]) = 2
    /\ \E t \in 1..Len(ReturnedTracks) : Len(ReturnedTracks[t].points) = 3
    /\ \E t \in 1..Len(ReturnedTracks) : Len(ReturnedTracks[t].points) = 1
    /\ TotalPoints(ReturnedTracks, 1) = 6

\* C28: in a returned result matchStatistics.totalMatches is the number of
\* track extensions, the sum over the tracks of the number of points less
\* one, so that tracks and matches together count the valid positions.
C28_MatchesCountExtensions ==
    Returned =>
        /\ result[1].matchStatistics.totalMatches =
               TotalPoints(ReturnedTracks, 1) - Len(ReturnedTracks)
        /\ Len(ReturnedTracks) + result[1].matchStatistics.totalMatches =
               TotalPositions(Frames, DOMAIN Frames)

\* ======================================================================
\* hooks/useBalloonData.ts with the effects of App.tsx
\* ======================================================================
MaxFetchCalls == 5    \* calls of fetchData

\* Lines 24-28: the first render.
InitLoading ==
    /\ AtRestExcept("loading")
    /\ loading = FALSE
    /\ loadError = Null
    /\ inFlight = {}
    /\ fetchStarted = 0

\* Lines 31-37: fetchData runs up to its await.
fetchData(startedBy) ==
    /\ fetchStarted < MaxFetchCalls
    /\ fetchStarted' = fetchStarted + 1
    /\ loading' = TRUE
    /\ loadError' = Null
    /\ inFlight' = inFlight \cup {[id |-> fetchStarted + 1, by |-> startedBy]}
    /\ Untouched("loading")

\* App.tsx line 32: the effect calls fetchData() when App is mounted.
MountEffect == fetchStarted = 0 /\ fetchData("mount")

\* App.tsx lines 34-36: the 7-minute interval calls refreshData().
IntervalFires == fetchStarted > 0 /\ fetchData("interval")

\* App.tsx line 124: the RefreshButton, enabled while loading is false,
\* calls refreshData().
ManualRefresh == fetchStarted > 0 /\ ~loading /\ fetchData("manual")

\* Lines 68-89 and 97-99: the awaited fetch resolved.
FetchResolves ==
    /\ \E call \in inFlight : inFlight' = inFlight \ {call}
    /\ loading' = FALSE
    /\ UNCHANGED <<loadError, fetchStarted>>
    /\ Untouched("loading")

\* Lines 90-99: the awaited fetch rejected.
FetchRejects ==
    /\ \E call \in inFlight : inFlight' = inFlight \ {call}
    /\ loadError' = Some("Network error")
    /\ loading' = FALSE
    /\ UNCHANGED fetchStarted
    /\ Untouched("loading")

NextLoading ==
    \/ MountEffect
    \/ IntervalFires
    \/ ManualRefresh
    \/ FetchResolves
    \/ FetchRejects

SpecLoading == InitLoading /\ [][NextLoading]_vars

\* C29: loading is true exactly while a call of fetchData is in flight.
C29_LoadingWhileInFlight == loading <=> inFlight # {}

\* ------------------------------------------- cache: overlapping calls
\* Call n of the log issued a request.
Requested(n) == fetchLog[n].kind = "call" /\ ~fetchLog[n].ok

\* The place in the log of the response to the request of call n, 0 when
\* there is none.
ResponseTo(n) ==
    LET answers == {m \in (n + 1)..Len(fetchLog) :
                       /\ fetchLog[m].kind = "response"
                       /\ fetchLog[m].data[1].response = n}
    IN IF answers = {} THEN 0 ELSE Latest(answers)

\* C30: of two calls for one key that both issued a request, the request of
\* the first failed, or the cache was cleared between them, or the second
\* was made when the response to the first was there and 10 minutes old;
\* two calls that overlap share one request.
C30_OneRequestPerWindow ==
    \A n, m \in 1..Len(fetchLog) :
        (/\ n < m
         /\ Requested(n)
         /\ Requested(m)
         /\ fetchLog[n].key = fetchLog[m].key) =>
            \/ fetchLog[n].failed
            \/ \E c \in (n + 1)..(m - 1) : fetchLog[c].kind = "clear"
            \/ /\ ResponseTo(n) # 0
               /\ ResponseTo(n) < m
               /\ fetchLog[m].at - fetchLog[ResponseTo(n)].at
                      >= CACHE_DURATION_MS

====
